---- MODULE Spec2Model ----
(***************************************************************************)
(* Party-equipment rental backend: bookings, availability and conflict     *)
(* detection, driver routes and driver recommendations.                    *)
(*                                                                         *)
(* The database is the sequence `bookings` (the bookings table in          *)
(* insertion order, a booking's id being its position), each row carrying  *)
(* its booking_items, and the sequence `drivers` (the drivers table).      *)
(* Inventory items and warehouses are fixed tables.  Dates are day         *)
(* numbers.                                                                *)
(***************************************************************************)
EXTENDS Integers, Sequences, FiniteSets, TLC

VARIABLES
    bookings,   \* the bookings table with its booking_items, in insertion order
    pc,         \* per in-flight creation request: where its handler stands
    req,        \* per in-flight creation request: the handler's local variables
    resp,       \* the response of the handler that ran last
    drivers,    \* the drivers table, in storage order
    cache,      \* the geocoder's lru_cache: its entries, least recently used first
    geocoded,   \* the address strings geocode_address has been called with
    proposals   \* the phineas_proposals table, in insertion order

vars == <<bookings, pc, req, resp, drivers, cache, geocoded, proposals>>

-----------------------------------------------------------------------------
(* Bounds *)

MaxDate == 2
MaxBookings == 2
MaxItems == 2
MaxAsked == 2

-----------------------------------------------------------------------------
(* Tables and value sets *)

Dates == 1..MaxDate

NoDate == 0
NoDriver == "none"
NoWarehouse == "none"
Unset == "unset"

CANCELLED == "cancelled"
COMPLETED == "completed"
PENDING == "pending"
CONFIRMED == "confirmed"

BookingStatus ==
    {PENDING, CONFIRMED, "out_for_delivery", "active", "pickup_scheduled",
     COMPLETED, CANCELLED}

\* The inventory_items table: current_warehouse_id is empty while the item is
\* out, default_warehouse_id is its home.
InventoryItem ==
    [castle |-> [current_warehouse_id |-> "w1", default_warehouse_id |-> "w1"],
     slide  |-> [current_warehouse_id |-> NoWarehouse, default_warehouse_id |-> "w2"]]

ItemIds == DOMAIN InventoryItem

\* Item ids a request can carry: the stored ones and one that names no row.
RequestItemIds == ItemIds \cup {"ghost"}

\* The item ids the creation requests of the booking service are drawn from.
CreateItemIds == {"castle", "ghost"}

Requests == {"r1", "r2"}

DriverIds == {"d1", "d2", "d3"}

\* The drivers table in storage order, every driver active.
AllActive ==
    << [driver_id |-> "d1", is_active |-> TRUE],
       [driver_id |-> "d2", is_active |-> TRUE],
       [driver_id |-> "d3", is_active |-> TRUE] >>

SeqsUpTo(S, n) == UNION {[1..k -> S] : k \in 1..n}

Range(s) == {s[k] : k \in DOMAIN s}

RECURSIVE FlattenSeq(_)
FlattenSeq(ss) == IF ss = <<>> THEN <<>> ELSE Head(ss) \o FlattenSeq(Tail(ss))

Terminal(b) == b.status \in {CANCELLED, COMPLETED}

BookingItemIds(b) == [k \in DOMAIN b.booking_items |-> b.booking_items[k].inventory_item_id]

-----------------------------------------------------------------------------
(* features/booking/utils.py *)

\* Variant of overlapping_bookings without the status filter.
overlapping_bookings_any_status(db, delivery_date, pickup_date) ==
    SelectSeq([k \in DOMAIN db |-> k],
              LAMBDA k : /\ db[k].delivery_date <= pickup_date
                         /\ db[k].pickup_date >= delivery_date)

\* The ids of the non-terminal bookings whose range overlaps the requested one,
\* in table order.
overlapping_bookings(db, delivery_date, pickup_date) ==
    SelectSeq([k \in DOMAIN db |-> k],
              LAMBDA k : /\ ~Terminal(db[k])
                         /\ db[k].delivery_date <= pickup_date
                         /\ db[k].pickup_date >= delivery_date)

\* The conflicts one requested item adds.
item_conflicts(db, item_id, overlapping) ==
    IF item_id \notin ItemIds
    THEN << [item_id |-> item_id, conflicting_booking |-> 0, reason |-> "Item not found"] >>
    ELSE LET hits == SelectSeq(overlapping,
                               LAMBDA k : item_id \in Range(BookingItemIds(db[k])))
         IN  [j \in DOMAIN hits |->
                 [item_id |-> item_id, conflicting_booking |-> hits[j], reason |-> "booked"]]

check_availability(db, item_ids, delivery_date, pickup_date) ==
    LET overlapping == overlapping_bookings(db, delivery_date, pickup_date)
        conflicts == FlattenSeq([k \in DOMAIN item_ids |->
                                    item_conflicts(db, item_ids[k], overlapping)])
    IN  [available |-> Len(conflicts) = 0, conflicts |-> conflicts]

\* item_bookings[item_id]: one entry per booking_item row of a non-terminal
\* booking that names the item, in table order.
item_bookings(db, item_id) ==
    FlattenSeq([k \in DOMAIN db |->
        IF Terminal(db[k]) THEN <<>>
        ELSE LET rows == SelectSeq(BookingItemIds(db[k]), LAMBDA x : x = item_id)
             IN  [j \in DOMAIN rows |-> k] ])

\* The keys of item_bookings in insertion order: the item ids of the
\* non-terminal bookings' rows by first appearance.
RECURSIVE FirstAppearance(_, _)
FirstAppearance(ids, seen) ==
    IF ids = <<>> THEN <<>>
    ELSE IF Head(ids) \in seen THEN FirstAppearance(Tail(ids), seen)
    ELSE <<Head(ids)>> \o FirstAppearance(Tail(ids), seen \cup {Head(ids)})

item_bookings_keys(db) ==
    FirstAppearance(
        FlattenSeq([k \in DOMAIN db |->
            IF Terminal(db[k]) THEN <<>> ELSE BookingItemIds(db[k])]),
        {})

\* Variant of dates_overlap with strict comparisons.
dates_overlap_exclusive(booking1, booking2) ==
    /\ booking1.delivery_date < booking2.pickup_date
    /\ booking2.delivery_date < booking1.pickup_date

\* The date test of the pair loop.
dates_overlap(booking1, booking2) ==
    /\ booking1.delivery_date <= booking2.pickup_date
    /\ booking2.delivery_date <= booking1.pickup_date

\* The pair loop over one item's entries: entry i against every later entry.
item_pair_conflicts(db, item_id, entries) ==
    IF Len(entries) < 2 THEN <<>>
    ELSE FlattenSeq([i \in DOMAIN entries |->
            LET later == SubSeq(entries, i + 1, Len(entries))
                hits  == SelectSeq(later,
                             LAMBDA b2 : dates_overlap(db[entries[i]], db[b2]))
            IN  [j \in DOMAIN hits |->
                    [item_id |-> item_id, booking1 |-> entries[i], booking2 |-> hits[j]]] ])

detect_all_conflicts(db) ==
    LET keys == item_bookings_keys(db)
    IN  FlattenSeq([n \in DOMAIN keys |->
            item_pair_conflicts(db, keys[n], item_bookings(db, keys[n]))])

-----------------------------------------------------------------------------
(* api/bookings.py: POST /api/bookings and POST /api/bookings/customer *)

Response(op, code, conflicts) == [op |-> op, code |-> code, conflicts |-> conflicts]

NoRequest ==
    [items |-> <<>>, delivery_date |-> NoDate, pickup_date |-> NoDate,
     delivery_address |-> "a1"]

\* The request bodies the creation endpoints are called with.
CreateInputs ==
    [items : SeqsUpTo(CreateItemIds, MaxItems),
     delivery_date : Dates, pickup_date : Dates, delivery_address : {"a1"}]

\* BookingBase.pickup_after_delivery and CustomerBookingCreate.pickup_after_delivery
pickup_after_delivery(data) == ~(data.pickup_date < data.delivery_date)

InFlight == {r \in Requests : pc[r] # "idle"}

\* One BookingItem row, its warehouses copied from the inventory item.
NewBookingItem(item_id) ==
    [inventory_item_id |-> item_id,
     pickup_warehouse_id |-> InventoryItem[item_id].current_warehouse_id,
     return_warehouse_id |-> InventoryItem[item_id].default_warehouse_id]

NewBooking(data) ==
    [delivery_date |-> data.delivery_date,
     pickup_date |-> data.pickup_date,
     status |-> PENDING,
     booking_items |-> [k \in DOMAIN data.items |-> NewBookingItem(data.items[k])],
     assigned_driver_id |-> NoDriver,
     pickup_driver_id |-> NoDriver,
     delivery_address |-> data.delivery_address]

\* Variant of create_booking_check that goes on to the insert whatever the
\* availability check reports.
create_booking_check_unchecked(r, data, customer_found) ==
    /\ pc[r] = "idle"
    /\ Len(bookings) + Cardinality(InFlight) < MaxBookings
    /\ IF ~pickup_after_delivery(data)
       THEN /\ resp' = Response("create_booking", 422, <<>>)
            /\ UNCHANGED <<bookings, pc, req, drivers, cache, geocoded, proposals>>
       ELSE IF ~customer_found
       THEN /\ resp' = Response("create_booking", 404, <<>>)
            /\ UNCHANGED <<bookings, pc, req, drivers, cache, geocoded, proposals>>
       ELSE /\ pc' = [pc EXCEPT ![r] = "create_booking_insert"]
            /\ req' = [req EXCEPT ![r] = data]
            /\ UNCHANGED <<bookings, resp, drivers, cache, geocoded, proposals>>

\* create_booking up to the point where the Booking row is built: request
\* validation, the availability check and the customer lookup.
create_booking_check(r, data, customer_found) ==
    /\ pc[r] = "idle"
    /\ Len(bookings) + Cardinality(InFlight) < MaxBookings
    /\ IF ~pickup_after_delivery(data)
       THEN /\ resp' = Response("create_booking", 422, <<>>)
            /\ UNCHANGED <<bookings, pc, req, drivers, cache, geocoded, proposals>>
       ELSE LET availability ==
                    check_availability(bookings, data.items,
                                       data.delivery_date, data.pickup_date)
            IN  IF ~availability.available
                THEN /\ resp' = Response("create_booking", 409, availability.conflicts)
                     /\ UNCHANGED <<bookings, pc, req, drivers, cache, geocoded, proposals>>
                ELSE IF ~customer_found
                THEN /\ resp' = Response("create_booking", 404, <<>>)
                     /\ UNCHANGED <<bookings, pc, req, drivers, cache, geocoded, proposals>>
                ELSE /\ pc' = [pc EXCEPT ![r] = "create_booking_insert"]
                     /\ req' = [req EXCEPT ![r] = data]
                     /\ UNCHANGED <<bookings, resp, drivers, cache, geocoded, proposals>>

\* Variant of create_booking_insert that checks availability again inside the
\* inserting transaction.
create_booking_insert_recheck(r) ==
    /\ pc[r] = "create_booking_insert"
    /\ pc' = [pc EXCEPT ![r] = "idle"]
    /\ req' = [req EXCEPT ![r] = NoRequest]
    /\ UNCHANGED <<drivers, cache, geocoded, proposals>>
    /\ LET availability ==
               check_availability(bookings, req[r].items,
                                  req[r].delivery_date, req[r].pickup_date)
       IN  IF ~availability.available
           THEN /\ resp' = Response("create_booking", 409, availability.conflicts)
                /\ UNCHANGED bookings
           ELSE /\ bookings' = Append(bookings, NewBooking(req[r]))
                /\ resp' = Response("create_booking", 201, <<>>)

\* create_booking from db.add(booking) to the commit.
create_booking_insert(r) ==
    /\ pc[r] = "create_booking_insert"
    /\ pc' = [pc EXCEPT ![r] = "idle"]
    /\ req' = [req EXCEPT ![r] = NoRequest]
    /\ UNCHANGED <<drivers, cache, geocoded, proposals>>
    /\ IF \E k \in DOMAIN req[r].items : req[r].items[k] \notin ItemIds
       THEN /\ resp' = Response("create_booking", 404, <<>>)
            /\ UNCHANGED bookings
       ELSE /\ bookings' = Append(bookings, NewBooking(req[r]))
            /\ resp' = Response("create_booking", 201, <<>>)

\* create_customer_booking up to the point where the Booking row is built:
\* request validation, find-or-create of the customer, the availability check
\* and the price loop.
create_customer_booking_check(r, data) ==
    /\ pc[r] = "idle"
    /\ Len(bookings) + Cardinality(InFlight) < MaxBookings
    /\ IF ~pickup_after_delivery(data)
       THEN /\ resp' = Response("create_customer_booking", 422, <<>>)
            /\ UNCHANGED <<bookings, pc, req, drivers, cache, geocoded, proposals>>
       ELSE LET availability ==
                    check_availability(bookings, data.items,
                                       data.delivery_date, data.pickup_date)
            IN  IF ~availability.available
                THEN /\ resp' = Response("create_customer_booking", 409, availability.conflicts)
                     /\ UNCHANGED <<bookings, pc, req, drivers, cache, geocoded, proposals>>
                ELSE IF \E k \in DOMAIN data.items : data.items[k] \notin ItemIds
                THEN /\ resp' = Response("create_customer_booking", 404, <<>>)
                     /\ UNCHANGED <<bookings, pc, req, drivers, cache, geocoded, proposals>>
                ELSE /\ pc' = [pc EXCEPT ![r] = "create_customer_booking_insert"]
                     /\ req' = [req EXCEPT ![r] = data]
                     /\ UNCHANGED <<bookings, resp, drivers, cache, geocoded, proposals>>

\* create_customer_booking from db.add(booking) to the commit.
create_customer_booking_insert(r) ==
    /\ pc[r] = "create_customer_booking_insert"
    /\ pc' = [pc EXCEPT ![r] = "idle"]
    /\ req' = [req EXCEPT ![r] = NoRequest]
    /\ UNCHANGED <<drivers, cache, geocoded, proposals>>
    /\ bookings' = Append(bookings, NewBooking(req[r]))
    /\ resp' = Response("create_customer_booking", 201, <<>>)

-----------------------------------------------------------------------------
(* features/booking/utils.py: generate_order_number, and the creation *)
(* handlers with the order number they store *)

\* random.randint(1000, 9999)
OrderNumberMin == 1000
OrderNumberMax == 9999

\* The draws followed here: the two ends of the range and one number inside.
OrderNumbers == {OrderNumberMin, OrderNumberMin + 1, OrderNumberMax}

\* The numbers generate_order_number can return: it draws one without
\* reading the table.
generate_order_number == OrderNumbers

\* The Booking row with its order_number column.
NumberedBooking(data, order_number) ==
    NewBooking(data) @@ [order_number |-> order_number]

\* The unique index on bookings.order_number, tested at db.flush().
order_number_taken(db, order_number) ==
    \E k \in DOMAIN db : db[k].order_number = order_number

\* create_booking from generate_order_number() to the commit: the flush of
\* the Booking row raises IntegrityError on a stored order number, which
\* ends the request with a 500 and nothing stored; then the item loop.
create_booking_store(r, order_number) ==
    /\ pc[r] = "create_booking_insert"
    /\ pc' = [pc EXCEPT ![r] = "idle"]
    /\ req' = [req EXCEPT ![r] = NoRequest]
    /\ UNCHANGED <<drivers, cache, geocoded, proposals>>
    /\ IF order_number_taken(bookings, order_number)
       THEN /\ resp' = Response("create_booking", 500, <<>>)
            /\ UNCHANGED bookings
       ELSE IF \E k \in DOMAIN req[r].items : req[r].items[k] \notin ItemIds
       THEN /\ resp' = Response("create_booking", 404, <<>>)
            /\ UNCHANGED bookings
       ELSE /\ bookings' = Append(bookings, NumberedBooking(req[r], order_number))
            /\ resp' = Response("create_booking", 201, <<>>)

\* create_customer_booking from generate_order_number() to the commit.
create_customer_booking_store(r, order_number) ==
    /\ pc[r] = "create_customer_booking_insert"
    /\ pc' = [pc EXCEPT ![r] = "idle"]
    /\ req' = [req EXCEPT ![r] = NoRequest]
    /\ UNCHANGED <<drivers, cache, geocoded, proposals>>
    /\ IF order_number_taken(bookings, order_number)
       THEN /\ resp' = Response("create_customer_booking", 500, <<>>)
            /\ UNCHANGED bookings
       ELSE /\ bookings' = Append(bookings, NumberedBooking(req[r], order_number))
            /\ resp' = Response("create_customer_booking", 201, <<>>)

-----------------------------------------------------------------------------
(* api/admin.py: PATCH /api/admin/bookings/{booking_id} *)

\* The statuses an update request sets in the model.
StatusInputs == {CONFIRMED, CANCELLED, COMPLETED}

\* BookingUpdate bodies: every field optional, NoDate / Unset when not sent.
UpdateInputs ==
    [delivery_date : Dates \cup {NoDate},
     pickup_date : Dates \cup {NoDate},
     status : StatusInputs \cup {Unset},
     assigned_driver_id : {Unset},
     pickup_driver_id : {Unset}]

\* The setattr loop over model_dump(exclude_unset=True).
apply_update(booking, update_data) ==
    [booking EXCEPT
        !.delivery_date = IF update_data.delivery_date = NoDate THEN @
                          ELSE update_data.delivery_date,
        !.pickup_date = IF update_data.pickup_date = NoDate THEN @
                        ELSE update_data.pickup_date,
        !.status = IF update_data.status = Unset THEN @ ELSE update_data.status,
        !.assigned_driver_id = IF update_data.assigned_driver_id = Unset THEN @
                               ELSE update_data.assigned_driver_id,
        !.pickup_driver_id = IF update_data.pickup_driver_id = Unset THEN @
                             ELSE update_data.pickup_driver_id]

update_booking(booking_id, update_data) ==
    /\ UNCHANGED <<pc, req, drivers, cache, geocoded, proposals>>
    /\ IF booking_id \notin DOMAIN bookings
       THEN /\ resp' = Response("update_booking", 404, <<>>)
            /\ UNCHANGED bookings
       ELSE /\ bookings' = [bookings EXCEPT
                               ![booking_id] = apply_update(@, update_data)]
            /\ resp' = Response("update_booking", 200, <<>>)

-----------------------------------------------------------------------------
(* The booking service: creation requests in flight and admin updates *)

Init ==
    /\ bookings = <<>>
    /\ pc = [r \in Requests |-> "idle"]
    /\ req = [r \in Requests |-> NoRequest]
    /\ resp = Response("none", 0, <<>>)
    /\ drivers = AllActive
    /\ cache = <<>>
    /\ geocoded = {}
    /\ proposals = <<>>

CreateBookingCheck ==
    \E r \in Requests, data \in CreateInputs, customer_found \in BOOLEAN :
        create_booking_check(r, data, customer_found)

CreateBookingInsert == \E r \in Requests : create_booking_insert(r)

CreateCustomerBookingCheck ==
    \E r \in Requests, data \in CreateInputs : create_customer_booking_check(r, data)

CreateCustomerBookingInsert == \E r \in Requests : create_customer_booking_insert(r)

UpdateBooking ==
    \E booking_id \in 1..MaxBookings, update_data \in UpdateInputs :
        update_booking(booking_id, update_data)

Next ==
    \/ CreateBookingCheck
    \/ CreateBookingInsert
    \/ CreateCustomerBookingCheck
    \/ CreateCustomerBookingInsert
    \/ UpdateBooking

Spec == Init /\ [][Next]_vars

\* Creation requests only: no admin update runs.
NextCreate ==
    \/ CreateBookingCheck
    \/ CreateBookingInsert
    \/ CreateCustomerBookingCheck
    \/ CreateCustomerBookingInsert

SpecCreate == Init /\ [][NextCreate]_vars

\* Requests served one at a time: a request starts only when none is in
\* flight.
NextSerial ==
    \/ InFlight = {} /\ CreateBookingCheck
    \/ CreateBookingInsert
    \/ InFlight = {} /\ CreateCustomerBookingCheck
    \/ CreateCustomerBookingInsert
    \/ InFlight = {} /\ UpdateBooking

SpecSerial == Init /\ [][NextSerial]_vars

CreateBookingStore ==
    \E r \in Requests, order_number \in generate_order_number :
        create_booking_store(r, order_number)

CreateCustomerBookingStore ==
    \E r \in Requests, order_number \in generate_order_number :
        create_customer_booking_store(r, order_number)

\* Creation requests with their order numbers.
NextOrder ==
    \/ CreateBookingCheck
    \/ CreateBookingStore
    \/ CreateCustomerBookingCheck
    \/ CreateCustomerBookingStore

SpecOrder == Init /\ [][NextOrder]_vars

-----------------------------------------------------------------------------
(* The availability and conflict queries over a stored table *)

\* Booking rows the service can hold: any dates and status (update_booking
\* sets them freely) and the item rows a creation request leaves.
StoredBookings ==
    [delivery_date : Dates,
     pickup_date : Dates,
     status : {PENDING, CANCELLED, COMPLETED},
     booking_items : {[k \in DOMAIN l |-> NewBookingItem(l[k])] :
                         l \in SeqsUpTo(ItemIds, MaxItems)},
     assigned_driver_id : {NoDriver},
     pickup_driver_id : {NoDriver},
     delivery_address : {"a1"}]

InitDb ==
    /\ bookings \in {<<>>} \cup SeqsUpTo(StoredBookings, MaxBookings)
    /\ pc = [r \in Requests |-> "idle"]
    /\ req = [r \in Requests |-> NoRequest]
    /\ resp = Response("none", 0, <<>>)
    /\ drivers = AllActive
    /\ cache = <<>>
    /\ geocoded = {}
    /\ proposals = <<>>

\* AvailabilityCheck bodies.
AvailabilityInputs ==
    [item_ids : SeqsUpTo(RequestItemIds, MaxItems),
     delivery_date : Dates, pickup_date : Dates]

\* POST /api/bookings/check-availability
check_booking_availability(data) ==
    /\ UNCHANGED <<bookings, pc, req, drivers, cache, geocoded, proposals>>
    /\ IF data.pickup_date < data.delivery_date
       THEN resp' = Response("check_booking_availability", 422, <<>>)
       ELSE LET result == check_availability(bookings, data.item_ids,
                                             data.delivery_date, data.pickup_date)
            IN  resp' = [op |-> "check_booking_availability", code |-> 200,
                         conflicts |-> result.conflicts,
                         available |-> result.available]

\* GET /api/admin/conflicts
get_conflicts ==
    /\ UNCHANGED <<bookings, pc, req, drivers, cache, geocoded, proposals>>
    /\ LET conflicts == detect_all_conflicts(bookings)
       IN  resp' = [op |-> "get_conflicts", code |-> 200,
                    conflicts |-> conflicts, total_conflicts |-> Len(conflicts)]

CheckBookingAvailability ==
    \E data \in AvailabilityInputs : check_booking_availability(data)

NextDb ==
    \/ CheckBookingAvailability
    \/ get_conflicts

SpecDb == InitDb /\ [][NextDb]_vars

-----------------------------------------------------------------------------
(* api/drivers.py: the driver's route for one date *)

\* The ids of the bookings the driver delivers on the date, in table order.
route_deliveries(db, driver_id, route_date) ==
    SelectSeq([k \in DOMAIN db |-> k],
              LAMBDA k : /\ db[k].assigned_driver_id = driver_id
                         /\ db[k].delivery_date = route_date)

\* The ids of the bookings the driver collects on the date, in table order.
route_pickups(db, driver_id, route_date) ==
    SelectSeq([k \in DOMAIN db |-> k],
              LAMBDA k : /\ db[k].pickup_driver_id = driver_id
                         /\ db[k].pickup_date = route_date)

\* The keys of the warehouse_pickups dict: the non-null pickup_warehouse_id of
\* the deliveries' item rows, by first appearance.
warehouse_pickups_keys(db, deliveries) ==
    FirstAppearance(
        SelectSeq(FlattenSeq([n \in DOMAIN deliveries |->
                      [j \in DOMAIN db[deliveries[n]].booking_items |->
                          db[deliveries[n]].booking_items[j].pickup_warehouse_id]]),
                  LAMBDA w : w # NoWarehouse),
        {})

\* The keys of the warehouse_returns dict, likewise over the pickups' rows.
warehouse_returns_keys(db, pickups) ==
    FirstAppearance(
        SelectSeq(FlattenSeq([n \in DOMAIN pickups |->
                      [j \in DOMAIN db[pickups[n]].booking_items |->
                          db[pickups[n]].booking_items[j].return_warehouse_id]]),
                  LAMBDA w : w # NoWarehouse),
        {})

WarehouseStop(stop_number, type, warehouse_id) ==
    [stop_number |-> stop_number, type |-> type,
     warehouse_id |-> warehouse_id, booking_id |-> 0, status |-> PENDING]

BookingStop(db, stop_number, type, booking_id) ==
    [stop_number |-> stop_number, type |-> type,
     warehouse_id |-> NoWarehouse, booking_id |-> booking_id,
     status |-> db[booking_id].status]

\* Variant of route_stops in which the counter starts again at 1 for the
\* customer stops.
route_stops_counter_restarts(db, driver_id, route_date) ==
    LET deliveries == route_deliveries(db, driver_id, route_date)
        pickups == route_pickups(db, driver_id, route_date)
        wp == warehouse_pickups_keys(db, deliveries)
        wr == warehouse_returns_keys(db, pickups)
        n1 == Len(wp)
        n2 == Len(deliveries)
        n3 == n2 + Len(pickups)
    IN  [k \in DOMAIN wp |-> WarehouseStop(k, "warehouse_pickup", wp[k])]
        \o [k \in DOMAIN deliveries |-> BookingStop(db, k, "delivery", deliveries[k])]
        \o [k \in DOMAIN pickups |-> BookingStop(db, n2 + k, "pickup", pickups[k])]
        \o [k \in DOMAIN wr |-> WarehouseStop(n3 + k, "warehouse_return", wr[k])]

\* The stops list: the four stages in turn, stop_number running across them.
route_stops(db, driver_id, route_date) ==
    LET deliveries == route_deliveries(db, driver_id, route_date)
        pickups == route_pickups(db, driver_id, route_date)
        wp == warehouse_pickups_keys(db, deliveries)
        wr == warehouse_returns_keys(db, pickups)
        n1 == Len(wp)
        n2 == n1 + Len(deliveries)
        n3 == n2 + Len(pickups)
    IN  [k \in DOMAIN wp |-> WarehouseStop(k, "warehouse_pickup", wp[k])]
        \o [k \in DOMAIN deliveries |-> BookingStop(db, n1 + k, "delivery", deliveries[k])]
        \o [k \in DOMAIN pickups |-> BookingStop(db, n2 + k, "pickup", pickups[k])]
        \o [k \in DOMAIN wr |-> WarehouseStop(n3 + k, "warehouse_return", wr[k])]

StopsOfType(stops, type) == SelectSeq(stops, LAMBDA s : s.type = type)

DriverExists(driver_id) == \E k \in DOMAIN drivers : drivers[k].driver_id = driver_id

\* GET /api/drivers/{driver_id}/route/{route_date}
\* Decimal("50.00"), the flat delivery fee, and the tips given, in dollars:
\* whole amounts, which float() converts exactly.
FlatDeliveryFee == 50
Tips == {0, 5}

\* sum(float(booking.delivery_fee) + float(booking.tip)
\*     for booking in deliveries)
RECURSIVE total_earnings(_, _)
total_earnings(db, deliveries) ==
    IF deliveries = <<>> THEN 0
    ELSE db[Head(deliveries)].delivery_fee + db[Head(deliveries)].tip
             + total_earnings(db, Tail(deliveries))

get_driver_route(driver_id, route_date) ==
    /\ UNCHANGED <<bookings, pc, req, drivers, cache, geocoded, proposals>>
    /\ IF ~DriverExists(driver_id)
       THEN resp' = Response("get_driver_route", 404, <<>>)
       ELSE LET stops == route_stops(bookings, driver_id, route_date)
            IN  resp' = [op |-> "get_driver_route", code |-> 200,
                         driver_id |-> driver_id,
                         route_date |-> route_date,
                         total_stops |-> Len(stops),
                         total_earnings |->
                             total_earnings(bookings,
                                 route_deliveries(bookings, driver_id,
                                                  route_date)),
                         warehouse_pickups |-> StopsOfType(stops, "warehouse_pickup"),
                         deliveries |-> StopsOfType(stops, "delivery"),
                         pickups |-> StopsOfType(stops, "pickup"),
                         warehouse_returns |-> StopsOfType(stops, "warehouse_return")]

\* Booking rows with a driver on either leg.
RouteBookings ==
    [delivery_date : Dates,
     pickup_date : Dates,
     status : {PENDING, CANCELLED, COMPLETED},
     booking_items : {[k \in DOMAIN l |-> NewBookingItem(l[k])] :
                         l \in SeqsUpTo(ItemIds, MaxItems)},
     assigned_driver_id : {NoDriver, "d1"},
     pickup_driver_id : {NoDriver, "d1"},
     delivery_address : {"a1"},
     delivery_fee : {FlatDeliveryFee},
     tip : {0}]

InitRoute ==
    /\ bookings \in {<<>>} \cup
           SeqsUpTo({b \in RouteBookings : b.delivery_date <= b.pickup_date},
                    MaxBookings)
    /\ pc = [r \in Requests |-> "idle"]
    /\ req = [r \in Requests |-> NoRequest]
    /\ resp = Response("none", 0, <<>>)
    /\ drivers = AllActive
    /\ cache = <<>>
    /\ geocoded = {}
    /\ proposals = <<>>

\* The driver ids a route is asked for: a driver of the table and an id
\* that names no row.
RouteDriverIds == {"d1", "d9"}

GetDriverRoute ==
    \E driver_id \in RouteDriverIds, route_date \in Dates :
        get_driver_route(driver_id, route_date)

NextRoute == GetDriverRoute

SpecRoute == InitRoute /\ [][NextRoute]_vars

-----------------------------------------------------------------------------
(* services/geocoding.py *)

\* A failed geocoding: the Python None.
None == <<>>

\* float("inf")
Inf == 999999

\* The empty address, and the addresses the geocoder resolves, as
\* <<latitude, longitude>>.  They lie on one meridian and latitudes are in
\* miles of arc from the first.
NoAddress == ""

Geocoded == [a1 |-> <<0, 0>>, a2 |-> <<3, 0>>, a3 |-> <<7, 0>>]

Addresses == DOMAIN Geocoded \cup {NoAddress}

geocode_address(address) ==
    IF address = NoAddress THEN None
    ELSE IF address \in DOMAIN Geocoded THEN Geocoded[address]
    ELSE None

\* The great-circle distance of two points of one meridian is the arc
\* between their latitudes.
haversine_distance_miles(lat1, lon1, lat2, lon2) ==
    IF lat1 >= lat2 THEN lat1 - lat2 ELSE lat2 - lat1

-----------------------------------------------------------------------------
(* services/route_optimizer.py *)

\* has_time_conflict: the stop count from which a driver is at capacity.
CapacityStops == 8

\* The max_recommendations get_driver_recommendations passes.
EndpointMaxRecommendations == 5

Min(S) == CHOOSE x \in S : \A y \in S : x <= y

Stop(address, stop_type, booking_id) ==
    [address |-> address, stop_type |-> stop_type, booking_id |-> booking_id,
     coords |-> geocode_address(address)]

\* bookings_dict of get_driver_recommendations: every row of the bookings
\* table.  Dates stay day numbers: str() of a date is its ISO form, equal
\* exactly for equal dates.
bookings_dict(db) ==
    [k \in DOMAIN db |->
        [id |-> k,
         delivery_date |-> db[k].delivery_date,
         pickup_date |-> db[k].pickup_date,
         delivery_address |-> db[k].delivery_address,
         delivery_driver_id |-> db[k].assigned_driver_id,
         pickup_driver_id |-> db[k].pickup_driver_id]]

drivers_dict(table) ==
    [k \in DOMAIN table |->
        [id |-> table[k].driver_id, is_active |-> table[k].is_active]]

build_driver_route(driver, bks, date) ==
    [driver_id |-> driver.id,
     date |-> date,
     stops |-> FlattenSeq([k \in DOMAIN bks |->
         (IF bks[k].delivery_driver_id = driver.id /\ bks[k].delivery_date = date
          THEN << Stop(bks[k].delivery_address, "delivery", bks[k].id) >>
          ELSE <<>>)
         \o
         (IF bks[k].pickup_driver_id = driver.id /\ bks[k].pickup_date = date
          THEN << Stop(bks[k].delivery_address, "pickup", bks[k].id) >>
          ELSE <<>>)])]

\* The miles one insertion point adds: after the last stop, or between stop
\* i and the next; Inf where a stop involved has no coordinates.
added_distance(stops, i, new_coords) ==
    IF i = Len(stops)
    THEN IF stops[i].coords # None
         THEN haversine_distance_miles(stops[i].coords[1], stops[i].coords[2],
                                       new_coords[1], new_coords[2])
         ELSE Inf
    ELSE IF stops[i].coords # None /\ stops[i + 1].coords # None
         THEN LET original ==
                      haversine_distance_miles(stops[i].coords[1], stops[i].coords[2],
                                               stops[i + 1].coords[1],
                                               stops[i + 1].coords[2])
                  with_new ==
                      haversine_distance_miles(stops[i].coords[1], stops[i].coords[2],
                                               new_coords[1], new_coords[2])
                      + haversine_distance_miles(new_coords[1], new_coords[2],
                                                 stops[i + 1].coords[1],
                                                 stops[i + 1].coords[2])
              IN  with_new - original
         ELSE Inf

\* Variant of calculate_route_disruption that tries the insertion after the
\* last stop only.
calculate_route_disruption_end_only(route, new_address) ==
    LET new_coords == geocode_address(new_address)
        stops == route.stops
    IN  IF new_coords = None THEN Inf
        ELSE IF Len(stops) = 0 THEN 0
        ELSE added_distance(stops, Len(stops), new_coords)

calculate_route_disruption(route, new_address) ==
    LET new_coords == geocode_address(new_address)
        stops == route.stops
    IN  IF new_coords = None THEN Inf
        ELSE IF Len(stops) = 0 THEN 0
        ELSE IF Len(stops) = 1
             THEN IF stops[1].coords # None
                  THEN haversine_distance_miles(stops[1].coords[1], stops[1].coords[2],
                                                new_coords[1], new_coords[2])
                  ELSE Inf
        ELSE LET min_added_distance ==
                     Min({Inf} \cup {added_distance(stops, i, new_coords) :
                                        i \in DOMAIN stops})
             IN  IF min_added_distance < 0 THEN 0 ELSE min_added_distance

calculate_distance_to_address(route, target_address) ==
    LET target_coords == geocode_address(target_address)
        stops == route.stops
    IN  IF target_coords = None THEN Inf
        ELSE IF Len(stops) = 0 THEN 0
        ELSE Min({Inf} \cup
                 {haversine_distance_miles(stops[i].coords[1], stops[i].coords[2],
                                           target_coords[1], target_coords[2]) :
                     i \in {j \in DOMAIN stops : stops[j].coords # None}})

\* Variant of has_time_conflict that lets a driver with exactly
\* CapacityStops stops through.
has_time_conflict_above_capacity(route, delivery_date, pickup_date) ==
    delivery_date = route.date /\ Len(route.stops) > CapacityStops

has_time_conflict(route, delivery_date, pickup_date) ==
    delivery_date = route.date /\ Len(route.stops) >= CapacityStops

\* The reason text of a recommendation, by its leading words.
recommendation_reason(stops, disruption, distance) ==
    IF stops = 0 THEN "No existing deliveries - fresh route"
    ELSE IF disruption < 2 THEN "Minimal disruption"
    ELSE IF distance < 5 THEN "Close to existing route"
    ELSE "stops, mi added"

\* Variant of driver_recommendation whose score leaves the workload penalty
\* out.
driver_recommendation_no_penalty(driver, bks, new_booking) ==
    IF ~driver.is_active THEN <<>>
    ELSE LET route == build_driver_route(driver, bks, new_booking.delivery_date)
         IN  IF has_time_conflict(route, new_booking.delivery_date,
                                  new_booking.pickup_date)
             THEN <<>>
             ELSE LET disruption ==
                          calculate_route_disruption(route, new_booking.delivery_address)
                      distance ==
                          calculate_distance_to_address(route,
                                                        new_booking.delivery_address)
                  IN  IF disruption = Inf \/ distance = Inf THEN <<>>
                      ELSE << [driver_id |-> driver.id,
                               score |-> disruption * 6 + distance * 4,
                               distance_to_delivery |-> distance,
                               route_disruption |-> disruption,
                               current_stops |-> Len(route.stops),
                               reason |-> recommendation_reason(Len(route.stops),
                                                                disruption, distance)] >>

\* The recommendation of one driver, as a sequence: empty when the driver is
\* skipped.  Scores are in tenths: 0.6, 0.4 and 0.5 of whole miles and stops.
driver_recommendation(driver, bks, new_booking) ==
    IF ~driver.is_active THEN <<>>
    ELSE LET route == build_driver_route(driver, bks, new_booking.delivery_date)
         IN  IF has_time_conflict(route, new_booking.delivery_date,
                                  new_booking.pickup_date)
             THEN <<>>
             ELSE LET disruption ==
                          calculate_route_disruption(route, new_booking.delivery_address)
                      distance ==
                          calculate_distance_to_address(route,
                                                        new_booking.delivery_address)
                  IN  IF disruption = Inf \/ distance = Inf THEN <<>>
                      ELSE << [driver_id |-> driver.id,
                               score |-> disruption * 6 + distance * 4
                                         + Len(route.stops) * 5,
                               distance_to_delivery |-> distance,
                               route_disruption |-> disruption,
                               current_stops |-> Len(route.stops),
                               reason |-> recommendation_reason(Len(route.stops),
                                                                disruption, distance)] >>

\* list.sort(key=score): ascending and stable.
RECURSIVE sort_by_score(_)
sort_by_score(recs) ==
    IF recs = <<>> THEN <<>>
    ELSE LET last == recs[Len(recs)]
             sorted == sort_by_score(SubSeq(recs, 1, Len(recs) - 1))
             before == SelectSeq(sorted, LAMBDA x : x.score <= last.score)
             after == SelectSeq(sorted, LAMBDA x : x.score > last.score)
         IN  before \o <<last>> \o after

\* Variant of recommend_drivers that returns the recommendations in driver
\* order, unsorted.
recommend_drivers_unsorted(drvs, bks, new_booking, max_recommendations) ==
    IF new_booking.delivery_address = NoAddress THEN <<>>
    ELSE LET recommendations ==
                 FlattenSeq([k \in DOMAIN drvs |->
                                driver_recommendation(drvs[k], bks, new_booking)])
         IN  SubSeq(recommendations, 1,
                    IF max_recommendations < Len(recommendations)
                    THEN max_recommendations ELSE Len(recommendations))

\* new_booking's delivery_date is never empty: it is str() of a date.
recommend_drivers(drvs, bks, new_booking, max_recommendations) ==
    IF new_booking.delivery_address = NoAddress THEN <<>>
    ELSE LET recommendations ==
                 sort_by_score(FlattenSeq([k \in DOMAIN drvs |->
                     driver_recommendation(drvs[k], bks, new_booking)]))
         IN  SubSeq(recommendations, 1,
                    IF max_recommendations < Len(recommendations)
                    THEN max_recommendations ELSE Len(recommendations))

new_booking_dict(db, booking_id) ==
    [id |-> booking_id,
     delivery_date |-> db[booking_id].delivery_date,
     pickup_date |-> db[booking_id].pickup_date,
     delivery_address |-> db[booking_id].delivery_address]

RecommendationsResponse(op, booking_id, max_recommendations) ==
    [op |-> op, code |-> 200, booking_id |-> booking_id,
     max_recommendations |-> max_recommendations,
     recommendations |->
         recommend_drivers(drivers_dict(drivers), bookings_dict(bookings),
                           new_booking_dict(bookings, booking_id),
                           max_recommendations)]

\* A call of recommend_drivers on the tables for a stored booking.
recommend_drivers_call(booking_id, max_recommendations) ==
    /\ booking_id \in DOMAIN bookings
    /\ UNCHANGED <<bookings, pc, req, drivers, cache, geocoded, proposals>>
    /\ resp' = RecommendationsResponse("recommend_drivers", booking_id,
                                       max_recommendations)

\* Variant of the endpoint that assigns the booking to the driver it
\* recommends first.
get_driver_recommendations_assigns(booking_id) ==
    /\ UNCHANGED <<pc, req, drivers, cache, geocoded, proposals>>
    /\ IF booking_id \notin DOMAIN bookings
       THEN /\ resp' = Response("get_driver_recommendations", 404, <<>>)
            /\ UNCHANGED bookings
       ELSE LET response == RecommendationsResponse("get_driver_recommendations",
                                                   booking_id,
                                                   EndpointMaxRecommendations)
            IN  /\ resp' = response
                /\ bookings' =
                       IF response.recommendations = <<>> THEN bookings
                       ELSE [bookings EXCEPT ![booking_id].assigned_driver_id =
                                response.recommendations[1].driver_id]

\* GET /api/admin/drivers/recommendations/{booking_id}
get_driver_recommendations(booking_id) ==
    /\ UNCHANGED <<bookings, pc, req, drivers, cache, geocoded, proposals>>
    /\ IF booking_id \notin DOMAIN bookings
       THEN resp' = Response("get_driver_recommendations", 404, <<>>)
       ELSE resp' = RecommendationsResponse("get_driver_recommendations", booking_id,
                                            EndpointMaxRecommendations)

\* Booking rows as the recommender reads them: dates, address and the two
\* drivers.
RecommendBookings ==
    {b \in [delivery_date : Dates,
            pickup_date : Dates,
            status : {PENDING},
            booking_items : {<< NewBookingItem("castle") >>},
            assigned_driver_id : {NoDriver, "d1", "d2"},
            pickup_driver_id : {NoDriver, "d1", "d2"},
            delivery_address : {"a1", "a2", NoAddress}] :
        b.delivery_date <= b.pickup_date}

\* Bookings that put two stops on one driver's day: delivered and collected
\* by the driver on the same date.
BusyBookings(driver_id) ==
    {b \in RecommendBookings : /\ b.assigned_driver_id = driver_id
                               /\ b.pickup_driver_id = driver_id
                               /\ b.delivery_date = b.pickup_date}

Repeat(x, n) == [k \in 1..n |-> x]

\* Tables that fill one driver's day to CapacityStops stops and another's to
\* two below, followed by at most one more booking.
BusyTables ==
    {Repeat(x, CapacityStops \div 2) \o Repeat(y, CapacityStops \div 2 - 1) \o tail :
        x \in BusyBookings("d1"), y \in BusyBookings("d2"),
        tail \in {<<>>} \cup SeqsUpTo(RecommendBookings, 1)}

\* Drivers tables: two storage orders, one driver inactive, every driver
\* inactive.
DriverTables ==
    { AllActive,
      << AllActive[3], AllActive[2], AllActive[1] >>,
      << [driver_id |-> "d1", is_active |-> FALSE], AllActive[2], AllActive[3] >>,
      [k \in DOMAIN AllActive |-> [AllActive[k] EXCEPT !.is_active = FALSE]] }

InitRecommend ==
    /\ bookings \in SeqsUpTo(RecommendBookings, MaxBookings) \cup BusyTables
    /\ pc = [r \in Requests |-> "idle"]
    /\ req = [r \in Requests |-> NoRequest]
    /\ resp = Response("none", 0, <<>>)
    /\ drivers \in DriverTables
    /\ cache = <<>>
    /\ geocoded = {}
    /\ proposals = <<>>

\* The booking ids a recommendation is asked for: the first rows, the first
\* row of a busy table's second block and its last row, and ids that name
\* no row of a shorter table.
RecommendBookingIds ==
    1..(MaxBookings + 1) \cup {CapacityStops \div 2 + 1, CapacityStops}

RecommendDriversCall ==
    \E booking_id \in RecommendBookingIds, max_recommendations \in 1..MaxAsked :
        recommend_drivers_call(booking_id, max_recommendations)

GetDriverRecommendations ==
    \E booking_id \in RecommendBookingIds : get_driver_recommendations(booking_id)

NextRecommend ==
    \/ RecommendDriversCall
    \/ GetDriverRecommendations

SpecRecommend == InitRecommend /\ [][NextRecommend]_vars

\* Booking rows of one day over every address, on the route of driver d1 or
\* of nobody.
ScoreBookings ==
    [delivery_date : {1},
     pickup_date : {1},
     status : {PENDING},
     booking_items : {<< NewBookingItem("castle") >>},
     assigned_driver_id : {NoDriver, "d1"},
     pickup_driver_id : {NoDriver, "d1"},
     delivery_address : Addresses]

InitScore ==
    /\ bookings \in SeqsUpTo(ScoreBookings, MaxBookings + 1)
    /\ pc = [r \in Requests |-> "idle"]
    /\ req = [r \in Requests |-> NoRequest]
    /\ resp = Response("none", 0, <<>>)
    /\ drivers = AllActive
    /\ cache = <<>>
    /\ geocoded = {}
    /\ proposals = <<>>

NextScore == GetDriverRecommendations

SpecScore == InitScore /\ [][NextScore]_vars

-----------------------------------------------------------------------------
(* api/admin.py: GET /api/admin/stats and *)
(* GET /api/admin/drivers/unassigned-bookings *)

\* Variant of the unassigned query without the status filter.
unassigned_query_any_status(db) ==
    SelectSeq([k \in DOMAIN db |-> k],
              LAMBDA k : db[k].assigned_driver_id = NoDriver)

\* The query of the list: the bookings with no delivery driver whose status
\* is neither cancelled nor completed, in table order.
unassigned_query(db) ==
    SelectSeq([k \in DOMAIN db |-> k],
              LAMBDA k : /\ db[k].assigned_driver_id = NoDriver
                         /\ db[k].status \notin {CANCELLED, COMPLETED})

\* order_by(Booking.delivery_date.asc()), ids of one date in table order.
order_by_delivery_date(db, ids) ==
    FlattenSeq([d \in Dates |->
                   SelectSeq(ids, LAMBDA k : db[k].delivery_date = d)])

\* GET /api/admin/stats, answered on the day `today`.
get_dashboard_stats(today) ==
    /\ UNCHANGED <<bookings, pc, req, drivers, cache, geocoded, proposals>>
    /\ resp' = [op |-> "get_dashboard_stats", code |-> 200,
                deliveries_today |->
                    Cardinality({k \in DOMAIN bookings :
                                    bookings[k].delivery_date = today}),
                active_rentals |->
                    Cardinality({k \in DOMAIN bookings :
                                    bookings[k].status = "active"}),
                unassigned_bookings |->
                    Cardinality({k \in DOMAIN bookings :
                        /\ bookings[k].assigned_driver_id = NoDriver
                        /\ bookings[k].status \notin {CANCELLED, COMPLETED}}),
                total_conflicts |-> Len(detect_all_conflicts(bookings)),
                total_drivers |->
                    Cardinality({k \in DOMAIN drivers : drivers[k].is_active})]

\* GET /api/admin/drivers/unassigned-bookings
get_unassigned_bookings ==
    /\ UNCHANGED <<bookings, pc, req, drivers, cache, geocoded, proposals>>
    /\ LET unassigned == order_by_delivery_date(bookings,
                                                unassigned_query(bookings))
       IN  resp' = [op |-> "get_unassigned_bookings", code |-> 200,
                    total |-> Len(unassigned),
                    bookings |->
                        [n \in DOMAIN unassigned |->
                            [booking_id |-> unassigned[n],
                             delivery_date |->
                                 bookings[unassigned[n]].delivery_date,
                             items_count |->
                                 Len(bookings[unassigned[n]].booking_items)]]]

GetDashboardStats == \E today \in Dates : get_dashboard_stats(today)

\* Booking rows a dispatcher works on: delivered on day 1 and collected the
\* same or the next day, live or cancelled, each leg with driver d1 or with
\* nobody, with the flat fee and a tip.
DispatchBookings ==
    [delivery_date : {1},
     pickup_date : Dates,
     status : {PENDING, CANCELLED},
     booking_items : {<< NewBookingItem("castle") >>},
     assigned_driver_id : {NoDriver, "d1"},
     pickup_driver_id : {NoDriver, "d1"},
     delivery_address : {"a1", "a2"},
     delivery_fee : {FlatDeliveryFee},
     tip : Tips]

InitDispatch ==
    /\ bookings \in SeqsUpTo(DispatchBookings, MaxBookings)
    /\ pc = [r \in Requests |-> "idle"]
    /\ req = [r \in Requests |-> NoRequest]
    /\ resp = Response("none", 0, <<>>)
    /\ drivers = AllActive
    /\ cache = <<>>
    /\ geocoded = {}
    /\ proposals = <<>>

NextDispatch ==
    \/ GetDriverRoute
    \/ RecommendDriversCall
    \/ GetDriverRecommendations
    \/ GetDashboardStats
    \/ get_unassigned_bookings

SpecDispatch == InitDispatch /\ [][NextDispatch]_vars

-----------------------------------------------------------------------------
(* api/routes.py: nearest-neighbour routes for one date *)

\* A NULL delivery_lat or delivery_lng.
NoCoord == -1

\* Coordinates are whole degrees.  Every longitude that is set is
\* StopLongitude, so that calculate_distance is the arc between latitudes.
StopLongitude == 7

StopLatitudes == {0, 1, 3, 4}

\* The first active warehouse: the depot the routes start from.
Warehouse == [name |-> "w1", address_lat |-> 2, address_lng |-> StopLongitude]

\* bool() of a coordinate as `if stop['latitude'] and stop['longitude']`
\* takes it: None and a zero Decimal are both false.
Truthy(coordinate) == coordinate # NoCoord /\ coordinate # 0

\* The Haversine distance of two points of one meridian, in degrees of arc.
calculate_distance(lat1, lon1, lat2, lon2) ==
    IF lat1 >= lat2 THEN lat1 - lat2 ELSE lat2 - lat1

\* The inner for loop: the index in remaining of the nearest stop whose
\* coordinates are truthy, the first of the equally near; 0 when there is
\* none.
RECURSIVE find_nearest(_, _, _, _, _, _)
find_nearest(remaining, k, current_lat, current_lon, nearest, min_distance) ==
    IF k > Len(remaining) THEN nearest
    ELSE IF Truthy(remaining[k].latitude) /\ Truthy(remaining[k].longitude)
         THEN LET distance == calculate_distance(current_lat, current_lon,
                                                 remaining[k].latitude,
                                                 remaining[k].longitude)
              IN  IF distance < min_distance
                  THEN find_nearest(remaining, k + 1, current_lat, current_lon,
                                    k, distance)
                  ELSE find_nearest(remaining, k + 1, current_lat, current_lon,
                                    nearest, min_distance)
         ELSE find_nearest(remaining, k + 1, current_lat, current_lon,
                           nearest, min_distance)

RemoveAt(seq, k) == SubSeq(seq, 1, k - 1) \o SubSeq(seq, k + 1, Len(seq))

\* Variant of the while loop that drops the stops left when no stop with
\* coordinates remains.
RECURSIVE nearest_neighbor_loop_drops_rest(_, _, _, _)
nearest_neighbor_loop_drops_rest(optimized, remaining, current_lat, current_lon) ==
    IF remaining = <<>> THEN optimized
    ELSE LET nearest == find_nearest(remaining, 1, current_lat, current_lon, 0, Inf)
         IN  IF nearest # 0
             THEN nearest_neighbor_loop_drops_rest(
                      Append(optimized, remaining[nearest]),
                      RemoveAt(remaining, nearest),
                      remaining[nearest].latitude,
                      remaining[nearest].longitude)
             ELSE optimized

\* The while loop of nearest_neighbor_route.
RECURSIVE nearest_neighbor_loop(_, _, _, _)
nearest_neighbor_loop(optimized, remaining, current_lat, current_lon) ==
    IF remaining = <<>> THEN optimized
    ELSE LET nearest == find_nearest(remaining, 1, current_lat, current_lon, 0, Inf)
         IN  IF nearest # 0
             THEN nearest_neighbor_loop(Append(optimized, remaining[nearest]),
                                        RemoveAt(remaining, nearest),
                                        remaining[nearest].latitude,
                                        remaining[nearest].longitude)
             ELSE optimized \o remaining

nearest_neighbor_route(stops, start_lat, start_lon) ==
    nearest_neighbor_loop(<<>>, stops, start_lat, start_lon)

RouteStop(db, k, delivery_type) ==
    [booking_id |-> k, latitude |-> db[k].delivery_lat,
     longitude |-> db[k].delivery_lng, delivery_type |-> delivery_type]

Unassigned == "unassigned"

delivery_group(b) ==
    IF b.assigned_driver_id # NoDriver THEN b.assigned_driver_id ELSE Unassigned

\* Variant of the pickup grouping without the delivery driver as fallback.
pickup_group_no_fallback(b) ==
    IF b.pickup_driver_id # NoDriver THEN b.pickup_driver_id ELSE Unassigned

pickup_group(b) ==
    IF b.pickup_driver_id # NoDriver THEN b.pickup_driver_id
    ELSE IF b.assigned_driver_id # NoDriver THEN b.assigned_driver_id
    ELSE Unassigned

\* The date's non-terminal deliveries, then its non-terminal pickups, in
\* table order.
optimize_deliveries(db, route_date) ==
    SelectSeq([k \in DOMAIN db |-> k],
              LAMBDA k : db[k].delivery_date = route_date /\ ~Terminal(db[k]))

optimize_pickups(db, route_date) ==
    SelectSeq([k \in DOMAIN db |-> k],
              LAMBDA k : db[k].pickup_date = route_date /\ ~Terminal(db[k]))

\* driver_bookings[driver_id]: the driver's delivery stops, then pickup stops.
driver_bookings(db, route_date, driver_id) ==
    LET deliveries == SelectSeq(optimize_deliveries(db, route_date),
                                LAMBDA k : delivery_group(db[k]) = driver_id)
        pickups == SelectSeq(optimize_pickups(db, route_date),
                             LAMBDA k : pickup_group(db[k]) = driver_id)
    IN  [n \in DOMAIN deliveries |-> RouteStop(db, deliveries[n], "delivery")]
        \o [n \in DOMAIN pickups |-> RouteStop(db, pickups[n], "pickup")]

\* The keys of driver_bookings by first appearance.
driver_bookings_keys(db, route_date) ==
    LET deliveries == optimize_deliveries(db, route_date)
        pickups == optimize_pickups(db, route_date)
    IN  FirstAppearance([n \in DOMAIN deliveries |-> delivery_group(db[deliveries[n]])]
                        \o [n \in DOMAIN pickups |-> pickup_group(db[pickups[n]])],
                        {})

UnknownDriver == "Unknown Driver"

\* driver_name = None
NoName == "none"

\* driver.name if driver else "Unknown Driver"; no name for the unassigned
\* group.  A driver's name is written as the driver's id.
route_driver_name(driver_id) ==
    IF driver_id = Unassigned THEN NoName
    ELSE IF DriverExists(driver_id) THEN driver_id
    ELSE UnknownDriver

\* The names a route can carry, in string order.
DriverNames == <<UnknownDriver, "d1", "d2", "d3">>

OptimizedRoute(db, route_date, driver_id) ==
    LET optimized_stops ==
            nearest_neighbor_route(driver_bookings(db, route_date, driver_id),
                                   Warehouse.address_lat, Warehouse.address_lng)
    IN  [driver_id |-> driver_id,
         driver_name |-> route_driver_name(driver_id),
         total_stops |-> Len(optimized_stops),
         stops |-> optimized_stops]

\* optimized_routes.sort(key=lambda r: (r.driver_name is None,
\* r.driver_name or "")): by name, routes of one name in their order, the
\* unassigned route last.
sort_by_driver_name(routes) ==
    FlattenSeq([i \in DOMAIN DriverNames |->
                   SelectSeq(routes, LAMBDA r : r.driver_name = DriverNames[i])])
    \o SelectSeq(routes, LAMBDA r : r.driver_name = NoName)

\* GET /api/routes/optimize/{route_date}.  The routes carry their stops; the
\* distance and duration totals are left out.
optimize_routes(route_date) ==
    /\ UNCHANGED <<bookings, pc, req, drivers, cache, geocoded, proposals>>
    /\ LET keys == driver_bookings_keys(bookings, route_date)
           routes == [n \in DOMAIN keys |-> OptimizedRoute(bookings, route_date, keys[n])]
       IN  resp' = [op |-> "optimize_routes", code |-> 200,
                    route_date |-> route_date,
                    routes |-> sort_by_driver_name(routes)]

\* Booking rows with their delivery_lat and delivery_lng: delivered on day 1
\* and collected on day 2, by driver d1 or by nobody.
OptimizeBookings ==
    [delivery_date : {1},
     pickup_date : {2},
     status : {PENDING},
     booking_items : {<< NewBookingItem("castle") >>},
     assigned_driver_id : {NoDriver, "d1"},
     pickup_driver_id : {NoDriver},
     delivery_address : {"a1"},
     delivery_lat : StopLatitudes \cup {NoCoord},
     delivery_lng : {StopLongitude, NoCoord}]

InitOptimize ==
    /\ bookings \in SeqsUpTo(OptimizeBookings, MaxBookings + 1)
    /\ pc = [r \in Requests |-> "idle"]
    /\ req = [r \in Requests |-> NoRequest]
    /\ resp = Response("none", 0, <<>>)
    /\ drivers = AllActive
    /\ cache = <<>>
    /\ geocoded = {}
    /\ proposals = <<>>

OptimizeRoutes == \E route_date \in Dates : optimize_routes(route_date)

NextOptimize == OptimizeRoutes

SpecOptimize == InitOptimize /\ [][NextOptimize]_vars

\* Booking rows of a day's fleet: delivered on day 1 and collected the same
\* or the next day, live or cancelled, with driver d1 or nobody for the
\* delivery and driver d2 or nobody for the pickup.
FleetBookings ==
    [delivery_date : {1},
     pickup_date : Dates,
     status : {PENDING, CANCELLED},
     booking_items : {<< NewBookingItem("castle") >>},
     assigned_driver_id : {NoDriver, "d1"},
     pickup_driver_id : {NoDriver, "d2"},
     delivery_address : {"a1"},
     delivery_lat : {1, NoCoord},
     delivery_lng : {StopLongitude},
     delivery_fee : {FlatDeliveryFee},
     tip : {0}]

InitFleet ==
    /\ bookings \in SeqsUpTo(FleetBookings, MaxBookings)
    /\ pc = [r \in Requests |-> "idle"]
    /\ req = [r \in Requests |-> NoRequest]
    /\ resp = Response("none", 0, <<>>)
    /\ drivers = AllActive
    /\ cache = <<>>
    /\ geocoded = {}
    /\ proposals = <<>>

\* PATCH /api/admin/bookings/{booking_id} with body {"assigned_driver_id":
\* driver_id}, the id of a driver or of no driver row.
AssignDriver ==
    \E booking_id \in 1..MaxBookings, driver_id \in RouteDriverIds :
        update_booking(booking_id,
                       [delivery_date |-> NoDate, pickup_date |-> NoDate,
                        status |-> Unset, assigned_driver_id |-> driver_id,
                        pickup_driver_id |-> Unset])

NextFleet ==
    \/ AssignDriver
    \/ OptimizeRoutes
    \/ GetDriverRoute

SpecFleet == InitFleet /\ [][NextFleet]_vars

-----------------------------------------------------------------------------
(* services/geocoding.py: geocode_address over the provider's lru_cache *)

\* Address strings are numbered in this part: 0 is the empty string,
\* 1..MaxOtherAddresses are distinct addresses of stops, and two more
\* addresses are the ones asked for repeatedly: one the provider resolves and
\* one it has no result for.
MaxOtherAddresses == 1000
BatchSize == 100

\* @lru_cache(maxsize=1000)
CacheMaxSize == 1000

EmptyAddress == 0
OtherAddresses == 1..MaxOtherAddresses
ResolvedAddress == MaxOtherAddresses + 1
UnresolvedAddress == MaxOtherAddresses + 2
AskedAddresses == {EmptyAddress, ResolvedAddress, UnresolvedAddress}

\* The provider's answer to one request: the first result's coordinates, or
\* None when the result list is empty or the request fails (requests.get
\* times out or raise_for_status raises while the provider is down: the
\* except clause logs the error and returns None).
provider_request(address, up) ==
    IF ~up \/ address = UnresolvedAddress THEN None ELSE <<address, 0>>

\* The position of the address in the cache, 0 when it is not there.
cache_position(entries, address) ==
    IF \E k \in 1..Len(entries) : entries[k].address = address
    THEN CHOOSE k \in 1..Len(entries) : entries[k].address = address
    ELSE 0

\* geocode_address_osm under lru_cache: a hit returns the stored result (a
\* stored None included) and makes the entry the most recently used; a miss
\* asks the provider, stores the answer and, the cache being full, drops the
\* least recently used entry.
geocode_address_osm_retries_failures(entries, address, up) ==
    LET k == cache_position(entries, address)
        kept == IF Len(entries) >= CacheMaxSize THEN Tail(entries) ELSE entries
        rest == IF k > 0 THEN RemoveAt(entries, k) ELSE kept
    IN  IF k > 0 /\ entries[k].result # None
        THEN [cache |-> Append(RemoveAt(entries, k), entries[k]),
              result |-> entries[k].result, requested |-> FALSE]
        ELSE [cache |-> Append(rest, [address |-> address,
                                      result |-> provider_request(address, up)]),
              result |-> provider_request(address, up), requested |-> TRUE]

geocode_address_osm(entries, address, up) ==
    LET k == cache_position(entries, address)
        kept == IF Len(entries) >= CacheMaxSize THEN Tail(entries) ELSE entries
    IN  IF k > 0
        THEN [cache |-> Append(RemoveAt(entries, k), entries[k]),
              result |-> entries[k].result, requested |-> FALSE]
        ELSE [cache |-> Append(kept, [address |-> address,
                                      result |-> provider_request(address, up)]),
              result |-> provider_request(address, up), requested |-> TRUE]

\* geocode_address: an empty address returns None before the provider
\* function is called.
geocode_address_cached(entries, address, up) ==
    IF address = EmptyAddress
    THEN [cache |-> entries, result |-> None, requested |-> FALSE]
    ELSE geocode_address_osm(entries, address, up)

\* The cache after the stops of a route were constructed: Stop.__init__
\* geocodes the address of each stop, here the addresses first..last in
\* this order (the first half, then the second half from the cache the first
\* half left), the provider answering every request.
RECURSIVE geocode_stops(_, _, _)
geocode_stops(entries, first, last) ==
    IF first > last THEN entries
    ELSE IF first = last
         THEN geocode_address_cached(entries, first, TRUE).cache
    ELSE LET middle == (first + last) \div 2
         IN  CHOOSE after \in {geocode_stops(before, middle + 1, last) :
                     before \in {geocode_stops(entries, first, middle)}} : TRUE

\* What a call returned, with what the model observed of it: whether it
\* sent a request, whether the address had been asked before, and whether the
\* provider was answering at the time.
GeocodeResponse(address, call, repeated, up) ==
    [op |-> "geocode_address", address |-> address, result |-> call.result,
     requested |-> call.requested, repeated |-> repeated, provider_up |-> up]

\* One call geocode_address(address), the provider being up or down.
GeocodeAddress ==
    \E address \in AskedAddresses, up \in BOOLEAN :
        LET call == geocode_address_cached(cache, address, up)
        IN  /\ cache' = call.cache
            /\ geocoded' = geocoded \cup {address}
            /\ resp' = GeocodeResponse(address, call, address \in geocoded, up)
            /\ UNCHANGED <<bookings, pc, req, drivers, proposals>>

\* A route is built over BatchSize stops at addresses not geocoded before.
GeocodeStops ==
    LET done == Cardinality(geocoded \cap OtherAddresses)
        last == done + BatchSize
        call == geocode_address_cached(
                    geocode_stops(cache, done + 1, last - 1), last, TRUE)
    IN  /\ last <= MaxOtherAddresses
        /\ cache' = call.cache
        /\ geocoded' = geocoded \cup (done + 1)..last
        /\ resp' = GeocodeResponse(last, call, FALSE, TRUE)
        /\ UNCHANGED <<bookings, pc, req, drivers, proposals>>

InitGeocode ==
    /\ bookings = <<>>
    /\ pc = [r \in Requests |-> "idle"]
    /\ req = [r \in Requests |-> NoRequest]
    /\ resp = Response("none", 0, <<>>)
    /\ drivers = AllActive
    /\ cache = <<>>
    /\ geocoded = {}
    /\ proposals = <<>>

NextGeocode == GeocodeAddress \/ GeocodeStops

SpecGeocode == InitGeocode /\ [][NextGeocode]_vars

-----------------------------------------------------------------------------
(* api/phineas.py: driver assignment proposals, propose -> review -> execute *)

\* The proposals table is not grown beyond this many rows.
MaxProposals == 3

APPROVED == "approved"
REJECTED == "rejected"
EXECUTED == "executed"
FAILED == "failed"

ProposalStatus == {PENDING, APPROVED, REJECTED, EXECUTED, FAILED}

TripTypes == <<"delivery", "pickup">>

\* max_recommendations=3 of the scan's calls of recommend_drivers.
ScanMaxRecommendations == 3

\* A new row of phineas_proposals.  proposal_id, a uuid4 in the code, is the
\* row's position in the table; action_data is the JSON document the row
\* stores, reduced to the three fields execution reads.
PhineasProposal(booking_id, driver_id, trip_type) ==
    [status |-> PENDING,
     booking_id |-> booking_id,
     driver_id |-> driver_id,
     action_data |-> [booking_id |-> booking_id, driver_id |-> driver_id,
                      trip_type |-> trip_type]]

PhineasResponse(op, code, proposal_id, proposals_created) ==
    [op |-> op, code |-> code, proposal_id |-> proposal_id,
     proposals_created |-> proposals_created]

\* The ids of the bookings the scan loads: those neither cancelled nor
\* completed, in table order.
scan_bookings(db) ==
    SelectSeq([k \in DOMAIN db |-> k], LAMBDA k : ~Terminal(db[k]))

all_bookings_dict(db) ==
    [j \in DOMAIN scan_bookings(db) |-> bookings_dict(db)[scan_bookings(db)[j]]]

\* The booking's driver column a trip type stands for.
trip_driver(booking, trip_type) ==
    IF trip_type = "delivery" THEN booking.assigned_driver_id
    ELSE booking.pickup_driver_id

\* The query for a pending proposal of the booking and trip type.  The
\* session is created with autoflush=False, so the query reads the stored
\* rows and not the proposals added earlier in the same scan.
existing(table, booking_id, trip_type) ==
    \E i \in DOMAIN table :
        /\ table[i].booking_id = booking_id
        /\ table[i].status = PENDING
        /\ table[i].action_data.trip_type = trip_type

\* Variant of the scan's step that proposes without looking for a pending
\* proposal of the booking and trip type.
trip_proposal_unchecked(table, db, booking_id, trip_type) ==
    LET recommendations ==
            recommend_drivers(drivers_dict(drivers), all_bookings_dict(db),
                              new_booking_dict(db, booking_id),
                              ScanMaxRecommendations)
    IN  IF /\ trip_driver(db[booking_id], trip_type) = NoDriver
           /\ recommendations # <<>>
        THEN << PhineasProposal(booking_id, recommendations[1].driver_id,
                                trip_type) >>
        ELSE <<>>

\* One trip of one booking in the scan's loop: the proposal it adds, if any.
trip_proposal(table, db, booking_id, trip_type) ==
    LET recommendations ==
            recommend_drivers(drivers_dict(drivers), all_bookings_dict(db),
                              new_booking_dict(db, booking_id),
                              ScanMaxRecommendations)
    IN  IF /\ trip_driver(db[booking_id], trip_type) = NoDriver
           /\ recommendations # <<>>
           /\ ~existing(table, booking_id, trip_type)
        THEN << PhineasProposal(booking_id, recommendations[1].driver_id,
                                trip_type) >>
        ELSE <<>>

\* The loop over the loaded bookings: the delivery, then the pickup of each.
proposals_created(table, db) ==
    FlattenSeq([j \in DOMAIN scan_bookings(db) |->
        trip_proposal(table, db, scan_bookings(db)[j], TripTypes[1])
        \o trip_proposal(table, db, scan_bookings(db)[j], TripTypes[2])])

\* POST /api/admin/phineas/scan-assignments
scan_driver_assignments ==
    LET created == proposals_created(proposals, bookings)
    IN  /\ Len(proposals) + Len(created) <= MaxProposals
        /\ proposals' = proposals \o created
        /\ resp' = PhineasResponse("scan_driver_assignments", 200, 0,
                                   Len(created))
        /\ UNCHANGED <<bookings, pc, req, drivers, cache, geocoded>>

\* The shared shape of approve and reject: 404 for no such proposal, 400 for
\* a proposal that is not pending, else the new status is stored.
review_proposal(op, proposal_id, new_status) ==
    /\ UNCHANGED <<bookings, pc, req, drivers, cache, geocoded>>
    /\ IF proposal_id \notin DOMAIN proposals
       THEN /\ resp' = PhineasResponse(op, 404, proposal_id, 0)
            /\ UNCHANGED proposals
       ELSE IF proposals[proposal_id].status # PENDING
       THEN /\ resp' = PhineasResponse(op, 400, proposal_id, 0)
            /\ UNCHANGED proposals
       ELSE /\ proposals' = [proposals EXCEPT ![proposal_id].status = new_status]
            /\ resp' = PhineasResponse(op, 200, proposal_id, 0)

\* Variant of approve_proposal without the status check.
approve_proposal_any_status(proposal_id) ==
    /\ UNCHANGED <<bookings, pc, req, drivers, cache, geocoded>>
    /\ IF proposal_id \notin DOMAIN proposals
       THEN /\ resp' = PhineasResponse("approve_proposal", 404, proposal_id, 0)
            /\ UNCHANGED proposals
       ELSE /\ proposals' = [proposals EXCEPT ![proposal_id].status = APPROVED]
            /\ resp' = PhineasResponse("approve_proposal", 200, proposal_id, 0)

\* PATCH /api/admin/phineas/proposals/{proposal_id}/approve
approve_proposal(proposal_id) ==
    review_proposal("approve_proposal", proposal_id, APPROVED)

\* PATCH /api/admin/phineas/proposals/{proposal_id}/reject
reject_proposal(proposal_id) ==
    review_proposal("reject_proposal", proposal_id, REJECTED)

\* The assignment of the try block: the trip's driver column is set.
assign_trip(booking, driver_id, trip_type) ==
    IF trip_type = "delivery"
    THEN [booking EXCEPT !.assigned_driver_id = driver_id]
    ELSE [booking EXCEPT !.pickup_driver_id = driver_id]

\* POST /api/admin/phineas/execute-assignment.  The action data a scan stores
\* has its three fields non-empty and its trip type delivery or pickup, so
\* the try block raises only when the commit does: the session rolls the
\* assignment back and the except clause stores the proposal as failed.
execute_driver_assignment(proposal_id, commit_fails) ==
    /\ UNCHANGED <<pc, req, drivers, cache, geocoded>>
    /\ IF proposal_id \notin DOMAIN proposals
       THEN /\ resp' = PhineasResponse("execute_driver_assignment", 404,
                                       proposal_id, 0)
            /\ UNCHANGED <<bookings, proposals>>
       ELSE IF proposals[proposal_id].status # APPROVED
       THEN /\ resp' = PhineasResponse("execute_driver_assignment", 400,
                                       proposal_id, 0)
            /\ UNCHANGED <<bookings, proposals>>
       ELSE LET action_data == proposals[proposal_id].action_data
                booking_id == action_data.booking_id
                driver_id == action_data.driver_id
                trip_type == action_data.trip_type
            IN  IF booking_id \notin DOMAIN bookings \/ ~DriverExists(driver_id)
                THEN /\ resp' = PhineasResponse("execute_driver_assignment",
                                                404, proposal_id, 0)
                     /\ UNCHANGED <<bookings, proposals>>
                ELSE IF commit_fails
                THEN /\ proposals' = [proposals EXCEPT
                                         ![proposal_id].status = FAILED]
                     /\ resp' = PhineasResponse("execute_driver_assignment",
                                                500, proposal_id, 0)
                     /\ UNCHANGED bookings
                ELSE /\ bookings' = [bookings EXCEPT ![booking_id] =
                                        assign_trip(@, driver_id, trip_type)]
                     /\ proposals' = [proposals EXCEPT
                                         ![proposal_id].status = EXECUTED]
                     /\ resp' = PhineasResponse("execute_driver_assignment",
                                                200, proposal_id, 0)

\* Booking rows as the scan reads them: one day, live or cancelled, the
\* delivery with driver d1 or nobody and the pickup with nobody.
PhineasBookings ==
    [delivery_date : {1},
     pickup_date : {1},
     status : {PENDING, CANCELLED},
     booking_items : {<< NewBookingItem("castle") >>},
     assigned_driver_id : {NoDriver, "d1"},
     pickup_driver_id : {NoDriver},
     delivery_address : {"a1"}]

\* Bookings tables with at most one row a scan can propose for: the other
\* rows are cancelled.
PhineasTables ==
    {db \in SeqsUpTo(PhineasBookings, MaxBookings) :
        Cardinality({k \in DOMAIN db : ~Terminal(db[k])}) <= 1}

\* Drivers tables: every driver active, or none (no driver is recommended).
PhineasDrivers ==
    {AllActive, [k \in DOMAIN AllActive |-> [AllActive[k] EXCEPT !.is_active = FALSE]]}

InitPhineas ==
    /\ bookings \in PhineasTables
    /\ pc = [r \in Requests |-> "idle"]
    /\ req = [r \in Requests |-> NoRequest]
    /\ resp = Response("none", 0, <<>>)
    /\ drivers \in PhineasDrivers
    /\ cache = <<>>
    /\ geocoded = {}
    /\ proposals = <<>>

\* The proposal ids of the requests: the rows and one id of no row.
ProposalIds == 1..(MaxProposals + 1)

ScanDriverAssignments == scan_driver_assignments

ApproveProposal == \E proposal_id \in ProposalIds : approve_proposal(proposal_id)

RejectProposal == \E proposal_id \in ProposalIds : reject_proposal(proposal_id)

ExecuteDriverAssignment ==
    \E proposal_id \in ProposalIds, commit_fails \in BOOLEAN :
        execute_driver_assignment(proposal_id, commit_fails)

\* PATCH /api/admin/bookings/{booking_id}: the dispatcher assigns driver d2
\* to the delivery or to the pickup by hand.
AssignTrip ==
    \E booking_id \in 1..MaxBookings, trip_type \in Range(TripTypes) :
        update_booking(booking_id,
                       [delivery_date |-> NoDate, pickup_date |-> NoDate,
                        status |-> Unset,
                        assigned_driver_id |->
                            IF trip_type = "delivery" THEN "d2" ELSE Unset,
                        pickup_driver_id |->
                            IF trip_type = "pickup" THEN "d2" ELSE Unset])

\* The proposal workflow next to the dispatcher's own assignments, the
\* requests served one at a time.
NextPhineas ==
    \/ ScanDriverAssignments
    \/ ApproveProposal
    \/ RejectProposal
    \/ ExecuteDriverAssignment
    \/ AssignTrip

SpecPhineas == InitPhineas /\ [][NextPhineas]_vars

-----------------------------------------------------------------------------
(* Properties of booking creation, availability and conflict detection *)

InsertPhases == {"create_booking_insert", "create_customer_booking_insert"}

Reserves(b, item_id) == \E k \in DOMAIN b.booking_items :
                            b.booking_items[k].inventory_item_id = item_id

NonTerminal(b) == b.status # "cancelled" /\ b.status # "completed"

\* C1: both creation handlers run check_availability before any Booking or
\* BookingItem row is added: a request moves on to its insert only in a step
\* in which the check on its items and dates reports available, rows are added
\* only by such a request, and a check that reports available = false ends the
\* request with a 409 carrying the conflict list, with no row added.
C1_CheckBeforeInsert ==
    [][ /\ \A r \in Requests :
              (pc[r] = "idle" /\ pc'[r] # "idle") =>
                  check_availability(bookings, req'[r].items, req'[r].delivery_date,
                                     req'[r].pickup_date).available
        /\ (Len(bookings') > Len(bookings)) =>
              \E r \in Requests :
                  /\ pc[r] \in InsertPhases
                  /\ pc'[r] = "idle"
                  /\ bookings' = Append(bookings, NewBooking(req[r]))
        /\ \A r \in Requests, data \in CreateInputs :
              LET a == check_availability(bookings, data.items, data.delivery_date,
                                          data.pickup_date)
              IN  ( /\ pc[r] = "idle"
                    /\ data.pickup_date >= data.delivery_date
                    /\ ~a.available
                    /\ \/ create_customer_booking_check(r, data)
                       \/ \E c \in BOOLEAN : create_booking_check(r, data, c) )
                  => /\ resp'.code = 409
                     /\ resp'.conflicts = a.conflicts
                     /\ a.conflicts # <<>>
                     /\ bookings' = bookings
                     /\ pc'[r] = "idle"
      ]_vars

\* C1 witness: a creation request was refused with 409 and a conflict naming a
\* stored booking, and the table holds just that one booking.
C1_Witness ==
    /\ resp.code = 409
    /\ \E k \in DOMAIN resp.conflicts : resp.conflicts[k].conflicting_booking = 1
    /\ Len(bookings) = 1

Reported(db, item_id, b1, b2) ==
    \E n \in DOMAIN detect_all_conflicts(db) :
        /\ detect_all_conflicts(db)[n].item_id = item_id
        /\ {detect_all_conflicts(db)[n].booking1, detect_all_conflicts(db)[n].booking2}
               = {b1, b2}

\* C2: two distinct non-terminal bookings that reserve the same item are
\* reported as a conflict by detect_all_conflicts if and only if
\* booking1.delivery_date <= booking2.pickup_date and
\* booking2.delivery_date <= booking1.pickup_date (inclusive overlap).
C2_InclusiveOverlap ==
    \A b1 \in DOMAIN bookings, b2 \in DOMAIN bookings, item_id \in ItemIds :
        ( /\ b1 < b2
          /\ NonTerminal(bookings[b1]) /\ NonTerminal(bookings[b2])
          /\ Reserves(bookings[b1], item_id) /\ Reserves(bookings[b2], item_id) )
        => ( Reported(bookings, item_id, b1, b2)
             <=> ( /\ bookings[b1].delivery_date <= bookings[b2].pickup_date
                   /\ bookings[b2].delivery_date <= bookings[b1].pickup_date ) )

\* C2 witness: the conflicts endpoint has answered with a record for two
\* non-terminal bookings of one item whose ranges share only a boundary day
\* (one ends on the day the other, longer one starts).
C2_Witness ==
    /\ resp.op = "get_conflicts"
    /\ \E n \in DOMAIN resp.conflicts :
          LET b1 == bookings[resp.conflicts[n].booking1]
              b2 == bookings[resp.conflicts[n].booking2]
          IN  /\ resp.conflicts[n].booking1 # resp.conflicts[n].booking2
              /\ b1.delivery_date <= b1.pickup_date
              /\ b1.pickup_date = b2.delivery_date
              /\ b2.delivery_date < b2.pickup_date

CountWhere(s, P(_)) == Cardinality({k \in DOMAIN s : P(s[k])})

\* The non-terminal bookings that reserve the item over a range overlapping
\* the requested one.
Blocking(db, item_id, delivery_date, pickup_date) ==
    {b \in DOMAIN db :
        /\ NonTerminal(db[b])
        /\ Reserves(db[b], item_id)
        /\ db[b].delivery_date <= pickup_date
        /\ db[b].pickup_date >= delivery_date}

\* C3: check_availability returns a value whose available flag is true exactly
\* when no requested item id is unknown and no requested item is in a
\* non-terminal booking overlapping the requested range; its conflicts hold one
\* entry per unknown requested item and one per (requested item, overlapping
\* booking) pair, and nothing else.
C3_Availability ==
    \A item_ids \in SeqsUpTo(RequestItemIds, MaxItems), dd \in Dates, pd \in Dates :
        LET r == check_availability(bookings, item_ids, dd, pd)
            asked(i) == CountWhere(item_ids, LAMBDA x : x = i)
        IN  /\ r.available \in BOOLEAN
            /\ r.available <=>
                   \A k \in DOMAIN item_ids :
                       /\ item_ids[k] \in ItemIds
                       /\ Blocking(bookings, item_ids[k], dd, pd) = {}
            /\ r.available <=> (r.conflicts = <<>>)
            /\ \A i \in RequestItemIds :
                   /\ CountWhere(r.conflicts,
                                 LAMBDA c : c.item_id = i /\ c.reason = "Item not found")
                          = IF i \in ItemIds THEN 0 ELSE asked(i)
                   /\ \A b \in 0..MaxBookings :
                          CountWhere(r.conflicts,
                                     LAMBDA c : /\ c.item_id = i
                                                /\ c.reason # "Item not found"
                                                /\ c.conflicting_booking = b)
                              = IF i \in ItemIds /\ b \in Blocking(bookings, i, dd, pd)
                                THEN asked(i) ELSE 0

\* C3 witness: the availability endpoint has answered available = false with
\* a conflict for an unknown item and one for an overlapping booking, while a
\* cancelled or completed booking of a known item adds none.
C3_Witness ==
    /\ resp.op = "check_booking_availability"
    /\ resp.code = 200
    /\ ~resp.available
    /\ \E k \in DOMAIN resp.conflicts : resp.conflicts[k].reason = "Item not found"
    /\ \E k \in DOMAIN resp.conflicts : resp.conflicts[k].conflicting_booking > 0
    /\ \E b \in DOMAIN bookings :
          /\ ~NonTerminal(bookings[b])
          /\ \A k \in DOMAIN resp.conflicts : resp.conflicts[k].conflicting_booking # b

\* Two non-terminal bookings reserve one item over overlapping dates.
DoubleBooked ==
    \E b1 \in DOMAIN bookings, b2 \in DOMAIN bookings, item_id \in ItemIds :
        /\ b1 # b2
        /\ NonTerminal(bookings[b1]) /\ NonTerminal(bookings[b2])
        /\ Reserves(bookings[b1], item_id) /\ Reserves(bookings[b2], item_id)
        /\ bookings[b1].delivery_date <= bookings[b2].pickup_date
        /\ bookings[b2].delivery_date <= bookings[b1].pickup_date

\* C4: the availability check and the insert are separate steps and the insert
\* does not look at the table again: a request that passed its check adds its
\* booking whatever was committed in between, so two concurrent requests for
\* the same item and overlapping dates both commit.
C4_InsertDoesNotRecheck ==
    [][ \A r \in Requests :
            (pc[r] \in InsertPhases /\ pc'[r] = "idle") =>
                /\ bookings' = Append(bookings, NewBooking(req[r]))
                /\ resp'.code = 201
      ]_vars

\* C4 witness: with creation requests only, the table holds two non-terminal
\* bookings of one item on overlapping dates.
C4_Witness == DoubleBooked /\ \A b \in DOMAIN bookings : bookings[b].status = "pending"

\* C6: every stored booking has pickup_date >= delivery_date.
C6_PickupNotBeforeDelivery ==
    \A b \in DOMAIN bookings : bookings[b].pickup_date >= bookings[b].delivery_date

\* C7: for the N non-terminal bookings that reserve an item, when their ranges
\* overlap pairwise, detect_all_conflicts holds exactly N*(N-1)/2 records for
\* that item.
C7_PairCount ==
    \A item_id \in ItemIds :
        LET S == {b \in DOMAIN bookings :
                     NonTerminal(bookings[b]) /\ Reserves(bookings[b], item_id)}
            N == Cardinality(S)
        IN  (\A x \in S, y \in S :
                 x # y => /\ bookings[x].delivery_date <= bookings[y].pickup_date
                          /\ bookings[y].delivery_date <= bookings[x].pickup_date)
            => CountWhere(detect_all_conflicts(bookings), LAMBDA c : c.item_id = item_id)
                   = (N * (N - 1)) \div 2

-----------------------------------------------------------------------------
(* Properties of the driver route and of the driver recommendations *)

IsRoute == resp.op = "get_driver_route" /\ resp.code = 200

StopNumbers(stops) == {stops[k].stop_number : k \in DOMAIN stops}

\* C8: in a get_driver_route response the stop numbers are exactly
\* 1..total_stops, no gap and no repeat, every warehouse_pickup stop comes
\* before every delivery, every delivery before every customer pickup and
\* every customer pickup before every warehouse_return, whatever the order of
\* the bookings in the table.
C8_StopNumbering ==
    IsRoute =>
        LET all == resp.warehouse_pickups \o resp.deliveries
                   \o resp.pickups \o resp.warehouse_returns
        IN  /\ Len(all) = resp.total_stops
            /\ StopNumbers(all) = 1..resp.total_stops
            /\ \A x \in StopNumbers(resp.warehouse_pickups),
                  y \in StopNumbers(resp.deliveries) : x < y
            /\ \A x \in StopNumbers(resp.deliveries),
                  y \in StopNumbers(resp.pickups) : x < y
            /\ \A x \in StopNumbers(resp.pickups),
                  y \in StopNumbers(resp.warehouse_returns) : x < y

\* A route with stops of all four stages, five or more in all, whose customer
\* pickup is stored before its delivery.
C8_Witness ==
    /\ IsRoute
    /\ resp.total_stops >= 5
    /\ resp.warehouse_pickups # <<>>
    /\ resp.warehouse_returns # <<>>
    /\ \E i \in DOMAIN resp.pickups, j \in DOMAIN resp.deliveries :
           resp.pickups[i].booking_id < resp.deliveries[j].booking_id

\* C5: a cancelled or completed booking contributes to no result: no conflict
\* record of detect_all_conflicts names it, no conflict of check_availability
\* names it, no stop of a get_driver_route response is its stop, and no stop
\* of a route the recommender builds for a driver is its stop.
C5_TerminalExcluded ==
    /\ LET conflicts == detect_all_conflicts(bookings)
       IN  \A k \in DOMAIN conflicts :
               /\ ~Terminal(bookings[conflicts[k].booking1])
               /\ ~Terminal(bookings[conflicts[k].booking2])
    /\ \A item_id \in ItemIds, delivery_date \in Dates, pickup_date \in Dates :
           LET conflicts == check_availability(bookings, <<item_id>>,
                                               delivery_date, pickup_date).conflicts
           IN  \A k \in DOMAIN conflicts :
                   ~Terminal(bookings[conflicts[k].conflicting_booking])
    /\ IsRoute =>
           LET stops == resp.deliveries \o resp.pickups
           IN  \A k \in DOMAIN stops : ~Terminal(bookings[stops[k].booking_id])
    /\ \A d \in DOMAIN drivers, date \in Dates :
           LET route == build_driver_route(drivers_dict(drivers)[d],
                                           bookings_dict(bookings), date)
           IN  \A k \in DOMAIN route.stops :
                   ~Terminal(bookings[route.stops[k].booking_id])

IsRecommendation ==
    /\ resp.op \in {"recommend_drivers", "get_driver_recommendations"}
    /\ resp.code = 200

Recommended == {resp.recommendations[k].driver_id : k \in DOMAIN resp.recommendations}

\* The stops a driver has on a date: the deliveries assigned to the driver
\* with that delivery date plus the pickups assigned to the driver with that
\* pickup date.
StopsOn(driver_id, date) ==
    Cardinality({k \in DOMAIN bookings : /\ bookings[k].assigned_driver_id = driver_id
                                         /\ bookings[k].delivery_date = date})
    + Cardinality({k \in DOMAIN bookings : /\ bookings[k].pickup_driver_id = driver_id
                                           /\ bookings[k].pickup_date = date})

RouteFor(driver_id, new_booking) ==
    build_driver_route([id |-> driver_id], bookings_dict(bookings),
                       new_booking.delivery_date)

\* Both metrics of the driver for the new booking are finite.
Scorable(driver_id, new_booking) ==
    /\ calculate_route_disruption(RouteFor(driver_id, new_booking),
                                  new_booking.delivery_address) # Inf
    /\ calculate_distance_to_address(RouteFor(driver_id, new_booking),
                                     new_booking.delivery_address) # Inf

ScoreOf(driver_id, new_booking) ==
    6 * calculate_route_disruption(RouteFor(driver_id, new_booking),
                                   new_booking.delivery_address)
    + 4 * calculate_distance_to_address(RouteFor(driver_id, new_booking),
                                        new_booking.delivery_address)
    + 5 * StopsOn(driver_id, new_booking.delivery_date)

\* The drivers recommend_drivers scores: active, below capacity, scorable.
Eligible(new_booking) ==
    {drivers[k].driver_id : k \in
        {j \in DOMAIN drivers :
            /\ drivers[j].is_active
            /\ new_booking.delivery_address # ""
            /\ StopsOn(drivers[j].driver_id, new_booking.delivery_date) < 8
            /\ Scorable(drivers[j].driver_id, new_booking)}}

\* C9: recommend_drivers returns no driver who already has 8 or more stops on
\* the new booking's delivery date, and does not leave out a driver with 7 or
\* fewer for capacity: such a driver, active and scorable, is returned
\* whenever the result has room for every driver.
C9_Capacity ==
    IsRecommendation =>
        LET new_booking == bookings[resp.booking_id]
        IN  \A k \in DOMAIN drivers :
                LET driver_id == drivers[k].driver_id
                    stops == StopsOn(driver_id, new_booking.delivery_date)
                IN  /\ stops >= 8 => driver_id \notin Recommended
                    /\ ( /\ stops <= 7
                         /\ drivers[k].is_active
                         /\ new_booking.delivery_address # ""
                         /\ Scorable(driver_id, new_booking)
                         /\ resp.max_recommendations >= Len(drivers) )
                       => driver_id \in Recommended

\* One driver with exactly 8 stops is left out and another with exactly 7 is
\* recommended.
C9_Witness ==
    /\ IsRecommendation
    /\ \E i \in DOMAIN drivers, j \in DOMAIN drivers :
           LET date == bookings[resp.booking_id].delivery_date
           IN  /\ drivers[i].is_active
               /\ StopsOn(drivers[i].driver_id, date) = 8
               /\ drivers[i].driver_id \notin Recommended
               /\ StopsOn(drivers[j].driver_id, date) = 7
               /\ drivers[j].driver_id \in Recommended

\* C10: recommend_drivers returns at most max_recommendations entries, in
\* non-decreasing score order, each for a distinct driver that is active and
\* was not skipped, each with that driver's score; no scored driver left out
\* has a strictly lower score than a returned one; the result is as long as
\* max_recommendations and the number of scored drivers allow, so it is the
\* empty list when every driver is inactive, at capacity or unscorable.
C10_TopRecommendations ==
    IsRecommendation =>
        LET new_booking == bookings[resp.booking_id]
            recs == resp.recommendations
            scored == Eligible(new_booking)
        IN  /\ Len(recs) <= resp.max_recommendations
            /\ \A i \in DOMAIN recs, j \in DOMAIN recs :
                   i < j => /\ recs[i].score <= recs[j].score
                            /\ recs[i].driver_id # recs[j].driver_id
            /\ \A i \in DOMAIN recs :
                   /\ recs[i].driver_id \in scored
                   /\ recs[i].score = ScoreOf(recs[i].driver_id, new_booking)
            /\ \A d \in scored \ Recommended : \A i \in DOMAIN recs :
                   ScoreOf(d, new_booking) >= recs[i].score
            /\ Len(recs) = IF Cardinality(scored) < resp.max_recommendations
                           THEN Cardinality(scored) ELSE resp.max_recommendations
            /\ scored = {} => recs = <<>>

Position(driver_id) == CHOOSE k \in DOMAIN drivers : drivers[k].driver_id = driver_id

\* A result cut to max_recommendations that leaves a scored driver out, with
\* two different scores in it and in another order than the drivers table.
C10_Witness ==
    /\ IsRecommendation
    /\ Len(resp.recommendations) = resp.max_recommendations
    /\ Eligible(bookings[resp.booking_id]) \ Recommended # {}
    /\ \E i \in DOMAIN resp.recommendations, j \in DOMAIN resp.recommendations :
           /\ i < j
           /\ resp.recommendations[i].score < resp.recommendations[j].score
           /\ Position(resp.recommendations[i].driver_id)
                  > Position(resp.recommendations[j].driver_id)

\* The active drivers with no stop on the new booking's delivery date.
FreshDrivers(new_booking) ==
    {drivers[k].driver_id : k \in
        {j \in DOMAIN drivers :
            /\ drivers[j].is_active
            /\ StopsOn(drivers[j].driver_id, new_booking.delivery_date) = 0}}

RecommendationOf(driver_id) ==
    resp.recommendations[CHOOSE k \in DOMAIN resp.recommendations :
                             resp.recommendations[k].driver_id = driver_id]

IsFresh(rec) ==
    /\ rec.route_disruption = 0
    /\ rec.distance_to_delivery = 0
    /\ rec.score = 0
    /\ rec.reason = "No existing deliveries - fresh route"

\* Scores are in tenths, so score = 0.6 * route_disruption
\* + 0.4 * distance_to_delivery + 0.5 * current_stops reads as below.
ScoreFormula ==
    \A k \in DOMAIN resp.recommendations :
        LET rec == resp.recommendations[k]
        IN  rec.score = 6 * rec.route_disruption + 4 * rec.distance_to_delivery
                        + 5 * rec.current_stops

\* C11 as stated: every recommendation's score is 0.6 * route_disruption
\* + 0.4 * distance_to_delivery + 0.5 * current_stops, and every active driver
\* with no stop on the new booking's delivery date, the new address being
\* geocodable, is recommended with disruption 0, proximity 0, score 0 and the
\* fresh-route reason.
C11_FreshDriverRecommended ==
    IsRecommendation =>
        LET new_booking == bookings[resp.booking_id]
        IN  /\ ScoreFormula
            /\ geocode_address(new_booking.delivery_address) # None =>
                   \A d \in FreshDrivers(new_booking) :
                       d \in Recommended /\ IsFresh(RecommendationOf(d))

\* C11: every recommendation's score is 0.6 * route_disruption
\* + 0.4 * distance_to_delivery + 0.5 * current_stops; an active driver with no
\* stop on the new booking's delivery date, the new address being geocodable,
\* has disruption 0, proximity 0, score 0 and the fresh-route reason when
\* recommended, and is left out only of a result that max_recommendations
\* cut and that holds nothing but score-0 recommendations.
C11_ScoreFormula ==
    IsRecommendation =>
        LET new_booking == bookings[resp.booking_id]
        IN  /\ ScoreFormula
            /\ geocode_address(new_booking.delivery_address) # None =>
                   \A d \in FreshDrivers(new_booking) :
                       IF d \in Recommended
                       THEN IsFresh(RecommendationOf(d))
                       ELSE /\ Len(resp.recommendations) = resp.max_recommendations
                            /\ \A k \in DOMAIN resp.recommendations :
                                   resp.recommendations[k].score = 0

\* A result with a fresh driver in it next to a driver with stops and a
\* positive disruption and distance.
C11_Witness ==
    /\ IsRecommendation
    /\ \E d \in FreshDrivers(bookings[resp.booking_id]) : d \in Recommended
    /\ \E k \in DOMAIN resp.recommendations :
           /\ resp.recommendations[k].current_stops > 0
           /\ resp.recommendations[k].route_disruption > 0
           /\ resp.recommendations[k].distance_to_delivery > 0

-----------------------------------------------------------------------------
(* Properties of the route metrics *)

\* The miles between two geocodable addresses.
Miles(a, b) ==
    IF Geocoded[a][1] >= Geocoded[b][1]
    THEN Geocoded[a][1] - Geocoded[b][1]
    ELSE Geocoded[b][1] - Geocoded[a][1]

Geocodable(a) == a \in DOMAIN Geocoded

Least(S) == CHOOSE x \in S : \A y \in S : x <= y

\* The addresses of the stops of a driver's route on a date, in route order.
RouteAddresses(driver_id, date) ==
    LET stops == build_driver_route([id |-> driver_id], bookings_dict(bookings),
                                    date).stops
    IN  [k \in DOMAIN stops |-> stops[k].address]

\* The added miles of the insertion points of a route for a new address:
\* between stop i and the next, or after the last stop.
AddedAt(route, i, new) ==
    IF i = Len(route) THEN Miles(route[i], new)
    ELSE Miles(route[i], new) + Miles(new, route[i + 1]) - Miles(route[i], route[i + 1])

\* The insertion points whose stops have coordinates.
UsablePoints(route) ==
    {i \in DOMAIN route :
        /\ Geocodable(route[i])
        /\ i < Len(route) => Geocodable(route[i + 1])}

NonNegative(x) == IF x < 0 THEN 0 ELSE x

DisruptionOf(driver_id, date, new) ==
    calculate_route_disruption(
        build_driver_route([id |-> driver_id], bookings_dict(bookings), date), new)

\* C12 as stated: the disruption is 0 for an empty route whatever the new
\* address; where every address involved has coordinates it is the distance
\* from the single stop for a one-stop route and, for two or more stops, the
\* minimum of the added distance over every insertion point, never below 0.
C12_DisruptionAsStated ==
    \A d \in DriverIds, date \in Dates, new \in Addresses :
        LET route == RouteAddresses(d, date)
            result == DisruptionOf(d, date, new)
        IN  /\ Len(route) = 0 => result = 0
            /\ (Geocodable(new) /\ \A k \in DOMAIN route : Geocodable(route[k])) =>
                   /\ Len(route) = 1 => result = Miles(route[1], new)
                   /\ Len(route) >= 2 =>
                          result = NonNegative(Least({AddedAt(route, i, new) :
                                                         i \in DOMAIN route}))

\* C12: where the new address has coordinates the disruption is 0 for an
\* empty route, the distance from the single stop for a one-stop route whose
\* stop has coordinates, and for two or more stops the minimum, never below
\* 0, of the added distance over the insertion points whose stops have
\* coordinates; it is infinite where the new address has no coordinates,
\* where the single stop has none, and where no insertion point has them.
C12_Disruption ==
    \A d \in DriverIds, date \in Dates, new \in Addresses :
        LET route == RouteAddresses(d, date)
            result == DisruptionOf(d, date, new)
        IN  IF ~Geocodable(new) THEN result = Inf
            ELSE /\ Len(route) = 0 => result = 0
                 /\ Len(route) = 1 =>
                        result = IF Geocodable(route[1]) THEN Miles(route[1], new)
                                 ELSE Inf
                 /\ Len(route) >= 2 =>
                        result = IF UsablePoints(route) = {} THEN Inf
                                 ELSE NonNegative(Least({AddedAt(route, i, new) :
                                                            i \in UsablePoints(route)}))

\* A recommendation for a driver with three or more stops whose disruption is
\* positive and comes from an insertion between two stops, the insertion
\* after the last stop adding more.
C12_Witness ==
    /\ IsRecommendation
    /\ \E k \in DOMAIN resp.recommendations :
           LET rec == resp.recommendations[k]
               new_booking == bookings[resp.booking_id]
               route == RouteAddresses(rec.driver_id, new_booking.delivery_date)
           IN  /\ rec.current_stops >= 3
               /\ rec.route_disruption > 0
               /\ Geocodable(route[Len(route)])
               /\ rec.route_disruption < Miles(route[Len(route)],
                                               new_booking.delivery_address)

\* C13: a driver is left out of the recommendations whenever geocoding fails
\* for the new booking's delivery address or for the address of any stop of
\* the driver's route on the delivery date; the failure is no error: the call
\* answers 200 with the list.
C13_GeocodeFailureSkips ==
    IsRecommendation =>
        LET new_booking == bookings[resp.booking_id]
        IN  \A k \in DOMAIN resp.recommendations :
                LET route == RouteAddresses(resp.recommendations[k].driver_id,
                                            new_booking.delivery_date)
                IN  /\ Geocodable(new_booking.delivery_address)
                    /\ \A i \in DOMAIN route : Geocodable(route[i])

StopsIn(db, driver_id, date) ==
    build_driver_route([id |-> driver_id], bookings_dict(db), date).stops

\* C14: adding one more stop to a driver's route never lowers the route
\* disruption of a new address: the table's last booking putting exactly one
\* stop on the driver's route of a date, the disruption of every new address
\* is no lower than it is without that booking.
C14_DisruptionMonotone ==
    bookings # <<>> =>
        LET before == SubSeq(bookings, 1, Len(bookings) - 1)
        IN  \A d \in DriverIds, date \in Dates, new \in Addresses :
                Len(StopsIn(bookings, d, date)) = Len(StopsIn(before, d, date)) + 1 =>
                    calculate_route_disruption(
                        build_driver_route([id |-> d], bookings_dict(bookings), date),
                        new)
                    >= calculate_route_disruption(
                           build_driver_route([id |-> d], bookings_dict(before), date),
                           new)

-----------------------------------------------------------------------------
(* Properties of the nearest-neighbour route *)

IsOptimized == resp.op = "optimize_routes"

HasCoordinates(stop) == stop.latitude # NoCoord /\ stop.longitude # NoCoord

\* The stops handed to nearest_neighbor_route for a route of the response.
InputStops(route) == driver_bookings(bookings, resp.route_date, route.driver_id)

IndexIn(seq, x) == CHOOSE k \in DOMAIN seq : seq[k] = x

Degrees(lat1, lat2) == IF lat1 >= lat2 THEN lat1 - lat2 ELSE lat2 - lat1

\* C15: each stop of an optimized route chosen while a stop with coordinates
\* remains is, among the remaining stops that have a latitude and a
\* longitude, the nearest to the current position (the depot at first, then
\* the stop before it), and of the equally near the first in input order.
C15_GreedyNearest ==
    IsOptimized =>
        \A n \in DOMAIN resp.routes :
            LET out == resp.routes[n].stops
                input == InputStops(resp.routes[n])
            IN  \A k \in DOMAIN out :
                    LET taken == {out[j] : j \in 1..(k - 1)}
                        candidates == {s \in Range(input) \ taken : HasCoordinates(s)}
                        current == IF k = 1 THEN Warehouse.address_lat
                                   ELSE out[k - 1].latitude
                    IN  candidates # {} =>
                            /\ out[k] \in candidates
                            /\ \A c \in candidates :
                                   \/ Degrees(current, out[k].latitude)
                                          < Degrees(current, c.latitude)
                                   \/ /\ Degrees(current, out[k].latitude)
                                             = Degrees(current, c.latitude)
                                      /\ IndexIn(input, out[k]) <= IndexIn(input, c)

\* C16: in an optimized route every stop that lacks a latitude or a longitude
\* comes after every stop that has both, and the stops lacking coordinates
\* keep their input order.
C16_MissingCoordinatesLast ==
    IsOptimized =>
        \A n \in DOMAIN resp.routes :
            LET out == resp.routes[n].stops
                input == InputStops(resp.routes[n])
            IN  \A i \in DOMAIN out, j \in DOMAIN out :
                    i < j =>
                        /\ ~(~HasCoordinates(out[i]) /\ HasCoordinates(out[j]))
                        /\ (~HasCoordinates(out[i]) /\ ~HasCoordinates(out[j])) =>
                               IndexIn(input, out[i]) < IndexIn(input, out[j])

-----------------------------------------------------------------------------
(* Properties of the geocoding cache *)

IsGeocode == resp.op = "geocode_address"

\* C17: once geocode_address has been called with an address, every later
\* call with the same address sends no request to the provider, whatever was
\* geocoded in between.
C17_NoRequery == IsGeocode /\ resp.repeated => ~resp.requested

\* The cache holds a failure for the address: an entry whose result is None.
CachedFailure(address) ==
    \E k \in 1..Len(cache) :
        cache[k].address = address /\ cache[k].result = None

\* C30: failures are memoized like successes. A call geocode_address(A)
\* made while the cache holds None for A (stored when the provider errored,
\* timed out or had no result) returns None and sends no request to the
\* provider, whether or not the provider would answer now.
C30_FailureMemoized ==
    [][\A address \in AskedAddresses :
          CachedFailure(address) /\ resp'.op = "geocode_address"
                                 /\ resp'.address = address
          => resp'.result = None /\ ~resp'.requested]_vars

\* The provider was down when the resolvable address was first asked, 1000
\* or fewer other entries later the address is asked again with the provider
\* up, and the call returns None without a request.
C30_Witness ==
    /\ IsGeocode
    /\ resp.address = ResolvedAddress
    /\ resp.provider_up
    /\ resp.repeated
    /\ resp.result = None
    /\ ~resp.requested
    /\ geocoded \cap OtherAddresses # {}

-----------------------------------------------------------------------------
(* Properties of the dispatcher's queries *)

\* C18: the route build and the recommender are read-only: no step of
\* get_driver_route, recommend_drivers or get_driver_recommendations changes
\* a booking, a booking item or a driver.
C18_ReadOnly == [][bookings' = bookings /\ drivers' = drivers]_vars

\* A recommendation was served for a booking of a table that also puts
\* stops on a driver's route.
C18_Witness ==
    /\ IsRecommendation
    /\ resp.recommendations # <<>>
    /\ \E k \in DOMAIN bookings : bookings[k].assigned_driver_id # NoDriver

\* The bookings the driver delivers on the date: the live bookings delivered
\* that day with the driver as delivery driver.
Delivers(driver_id, route_date) ==
    {k \in DOMAIN bookings : /\ bookings[k].assigned_driver_id = driver_id
                             /\ bookings[k].delivery_date = route_date
                             /\ ~Terminal(bookings[k])}

RECURSIVE Earned(_)
Earned(ids) ==
    IF ids = {} THEN 0
    ELSE LET k == CHOOSE i \in ids : TRUE
         IN  bookings[k].delivery_fee + bookings[k].tip + Earned(ids \ {k})

\* C20: total_earnings of a driver route is the sum of delivery_fee + tip
\* over exactly the bookings the driver delivers on the route date; a
\* booking the driver only collects that day adds nothing.
C20_EarningsOfDeliveries ==
    IsRoute => resp.total_earnings = Earned(Delivers(resp.driver_id, resp.route_date))

\* The bookings of the table that are unassigned: no delivery driver, status
\* neither cancelled nor completed.
UnassignedBookings ==
    {k \in DOMAIN bookings : /\ bookings[k].assigned_driver_id = NoDriver
                             /\ ~Terminal(bookings[k])}

IsStats == resp.op = "get_dashboard_stats"

IsUnassignedList == resp.op = "get_unassigned_bookings"

\* C19: the unassigned_bookings count of GET /api/admin/stats equals the
\* total of GET /api/admin/drivers/unassigned-bookings: over one table both
\* are the number of non-terminal bookings with no delivery driver, and the
\* list holds exactly those bookings.
C19_UnassignedCountsAgree ==
    /\ IsStats => resp.unassigned_bookings = Cardinality(UnassignedBookings)
    /\ IsUnassignedList =>
           /\ resp.total = Cardinality(UnassignedBookings)
           /\ resp.total = Len(resp.bookings)
           /\ {resp.bookings[n].booking_id : n \in DOMAIN resp.bookings} = UnassignedBookings

\* The list was served for a table with one unassigned booking and a
\* cancelled one without a driver.
C19_Witness ==
    /\ IsUnassignedList
    /\ resp.total = 1
    /\ \E k \in DOMAIN bookings : /\ bookings[k].assigned_driver_id = NoDriver
                                  /\ Terminal(bookings[k])

-----------------------------------------------------------------------------
(* Properties of the stored bookings *)

\* C24: with requests served one at a time, no sequence of creations and
\* admin updates reaches a table in which two non-terminal bookings reserve
\* one inventory item over overlapping date ranges.
C24_NoDoubleBooking == ~DoubleBooked

\* C25: detect_all_conflicts never emits a record whose booking1 and booking2
\* are the same booking.
C25_NoSelfConflict ==
    \A n \in DOMAIN detect_all_conflicts(bookings) :
        detect_all_conflicts(bookings)[n].booking1 #
            detect_all_conflicts(bookings)[n].booking2

\* C23: generate_order_number returns a number no stored booking has: the
\* stored bookings have pairwise distinct order numbers and no creation fails
\* on an order number that is already stored.
C23_FreshOrderNumber ==
    /\ \A b1 \in DOMAIN bookings, b2 \in DOMAIN bookings :
           b1 # b2 => bookings[b1].order_number # bookings[b2].order_number
    /\ resp.code # 500

-----------------------------------------------------------------------------
(* Properties of the optimized routes of a date *)

CountIn(seq, x) == Cardinality({k \in DOMAIN seq : seq[k] = x})

\* C28: nearest_neighbor_route returns every input stop exactly once: the
\* stops of each optimized route are a permutation of the stops handed to it.
C28_Permutation ==
    IsOptimized =>
        \A n \in DOMAIN resp.routes :
            LET out == resp.routes[n].stops
                input == InputStops(resp.routes[n])
            IN  /\ Len(out) = Len(input)
                /\ \A k \in DOMAIN input : CountIn(out, input[k]) = CountIn(input, input[k])

\* A route of three stops, with and without coordinates, returned in another
\* order than it was handed in.
C28_Witness ==
    /\ IsOptimized
    /\ \E n \in DOMAIN resp.routes :
          /\ Len(resp.routes[n].stops) = 3
          /\ resp.routes[n].stops # InputStops(resp.routes[n])
          /\ \E k \in 1..3 : HasCoordinates(resp.routes[n].stops[k])
          /\ \E k \in 1..3 : ~HasCoordinates(resp.routes[n].stops[k])

\* The places (route, position) of the response where the booking is a stop
\* of the type.
StopPlaces(booking_id, delivery_type) ==
    {<<n, i>> \in (DOMAIN resp.routes) \X (1..(Len(bookings) * 2)) :
        /\ i <= Len(resp.routes[n].stops)
        /\ resp.routes[n].stops[i].booking_id = booking_id
        /\ resp.routes[n].stops[i].delivery_type = delivery_type}

\* C29: in the routes of a date every non-terminal booking delivered that day
\* is exactly one delivery stop, in the route of its delivery driver or of the
\* unassigned group; every non-terminal booking collected that day is exactly
\* one pickup stop, in the route of its pickup driver, else of its delivery
\* driver, else of the unassigned group; no other booking is a stop; the
\* groups have one route each and total_stops is the number of stops.
C29_EveryBookingOnce ==
    IsOptimized =>
        /\ \A k \in DOMAIN bookings :
               LET b == bookings[k]
                   delivered == ~Terminal(b) /\ b.delivery_date = resp.route_date
                   collected == ~Terminal(b) /\ b.pickup_date = resp.route_date
                   own == IF b.assigned_driver_id # NoDriver
                          THEN b.assigned_driver_id ELSE Unassigned
                   collector == IF b.pickup_driver_id # NoDriver
                                THEN b.pickup_driver_id ELSE own
               IN  /\ Cardinality(StopPlaces(k, "delivery")) = IF delivered THEN 1 ELSE 0
                   /\ Cardinality(StopPlaces(k, "pickup")) = IF collected THEN 1 ELSE 0
                   /\ \A p \in StopPlaces(k, "delivery") :
                          resp.routes[p[1]].driver_id = own
                   /\ \A p \in StopPlaces(k, "pickup") :
                          resp.routes[p[1]].driver_id = collector
        /\ \A n \in DOMAIN resp.routes :
               /\ resp.routes[n].total_stops = Len(resp.routes[n].stops)
               /\ \A i \in DOMAIN resp.routes[n].stops :
                      resp.routes[n].stops[i].booking_id \in DOMAIN bookings
               /\ \A m \in DOMAIN resp.routes :
                      m # n => resp.routes[m].driver_id # resp.routes[n].driver_id

\* A booking delivered and collected that day by its delivery driver, for
\* want of a pickup driver, and a cancelled booking of the day that is no
\* stop.
C29_Witness ==
    /\ IsOptimized
    /\ \E k \in DOMAIN bookings :
          /\ bookings[k].pickup_driver_id = NoDriver
          /\ bookings[k].assigned_driver_id # NoDriver
          /\ StopPlaces(k, "pickup") # {}
          /\ StopPlaces(k, "delivery") # {}
    /\ \E k \in DOMAIN bookings :
          /\ Terminal(bookings[k])
          /\ bookings[k].delivery_date = resp.route_date

\* C22: an operation that looks up a driver that does not exist answers not
\* found and puts no default in the driver's place: no route of a served
\* optimization goes to a driver without a row, under a made-up name.
C22_NotFoundNotDefaulted ==
    IsOptimized /\ resp.code = 200 =>
        \A n \in DOMAIN resp.routes :
            /\ resp.routes[n].driver_name # UnknownDriver
            /\ resp.routes[n].driver_id # Unassigned =>
                   DriverExists(resp.routes[n].driver_id)

-----------------------------------------------------------------------------
(* Properties of the proposal workflow *)

IsReview == resp.op \in {"approve_proposal", "reject_proposal"}

IsExecute == resp.op = "execute_driver_assignment"

\* The allowed changes of one proposal's status, with the request that
\* makes each.
Transition(before, after, op) ==
    \/ before = PENDING /\ after = APPROVED /\ op = "approve_proposal"
    \/ before = PENDING /\ after = REJECTED /\ op = "reject_proposal"
    \/ before = APPROVED /\ after = EXECUTED /\ op = "execute_driver_assignment"
    \/ before = APPROVED /\ after = FAILED /\ op = "execute_driver_assignment"

\* C21: a proposal is created pending and its status changes only by
\* pending -> approved (approve), pending -> rejected (reject), approved ->
\* executed or failed (execute); approve or reject of a proposal that is not
\* pending and execute of a proposal that is not approved answer 400 and
\* leave the proposals and the bookings as they were; an execute request
\* changes a booking only for a proposal that was approved.
C21_ProposalLifecycle ==
    [][/\ Len(proposals') >= Len(proposals)
       /\ \A i \in DOMAIN proposals' :
              IF i \in DOMAIN proposals
              THEN \/ proposals'[i] = proposals[i]
                   \/ /\ Transition(proposals[i].status, proposals'[i].status,
                                    resp'.op)
                      /\ proposals' = [proposals EXCEPT
                                          ![i].status = proposals'[i].status]
              ELSE proposals'[i].status = PENDING
       /\ resp'.op \in {"approve_proposal", "reject_proposal"}
          /\ resp'.proposal_id \in DOMAIN proposals
          /\ proposals[resp'.proposal_id].status # PENDING
          => resp'.code = 400 /\ proposals' = proposals /\ bookings' = bookings
       /\ resp'.op = "execute_driver_assignment"
          /\ resp'.proposal_id \in DOMAIN proposals
          /\ proposals[resp'.proposal_id].status # APPROVED
          => resp'.code = 400 /\ proposals' = proposals /\ bookings' = bookings
       /\ resp'.op = "execute_driver_assignment" /\ bookings' # bookings
          => /\ resp'.proposal_id \in DOMAIN proposals
             /\ proposals[resp'.proposal_id].status = APPROVED]_vars

\* An execute request for a rejected proposal was refused with 400 while
\* another proposal is executed and its driver is on the booking's trip.
C21_Witness ==
    /\ IsExecute
    /\ resp.code = 400
    /\ resp.proposal_id \in DOMAIN proposals
    /\ proposals[resp.proposal_id].status = REJECTED
    /\ \E i \in DOMAIN proposals :
           /\ proposals[i].status = EXECUTED
           /\ trip_driver(bookings[proposals[i].booking_id],
                          proposals[i].action_data.trip_type)
              = proposals[i].driver_id
    /\ \E i \in DOMAIN proposals : proposals[i].status = FAILED

\* C26: an execute request that assigns finds the trip's driver column of
\* the booking empty; a driver assigned since the proposal was made is
\* never replaced.
C26_AssignsOnlyEmpty ==
    [][resp'.op = "execute_driver_assignment" /\ resp'.code = 200
       => LET proposal == proposals[resp'.proposal_id]
          IN  trip_driver(bookings[proposal.booking_id],
                          proposal.action_data.trip_type) = NoDriver]_vars

\* The pending proposals of a booking's trip.
PendingFor(booking_id, trip_type) ==
    {i \in DOMAIN proposals : /\ proposals[i].booking_id = booking_id
                              /\ proposals[i].action_data.trip_type = trip_type
                              /\ proposals[i].status = PENDING}

\* C27: whatever scan, approve, reject and execute requests were served, one
\* at a time, each booking has at most one pending proposal for its delivery
\* and at most one for its pickup.
C27_OnePendingPerTrip ==
    \A booking_id \in DOMAIN bookings, trip_type \in Range(TripTypes) :
        Cardinality(PendingFor(booking_id, trip_type)) <= 1

\* A scan has just proposed again for a trip whose earlier proposal was
\* rejected, and left alone a trip whose proposal is still pending.
C27_Witness ==
    /\ resp.op = "scan_driver_assignments"
    /\ resp.proposals_created = 1
    /\ \E i, j \in DOMAIN proposals :
           /\ i < j
           /\ proposals[i].status = REJECTED
           /\ proposals[j].status = PENDING
           /\ j = Len(proposals)
           /\ proposals[i].booking_id = proposals[j].booking_id
           /\ proposals[i].action_data.trip_type
              = proposals[j].action_data.trip_type
    /\ \E i \in DOMAIN proposals :
           /\ i < Len(proposals)
           /\ proposals[i].status = PENDING

====
